---- MODULE Spec2Model ----
(***************************************************************************)
(* State-machine model of the fitness-coach web application:               *)
(*   - useModelLoader.ensure        (hooks/useModelLoader)                 *)
(*   - ChatTab sessions / send / cancel                                    *)
(*   - PlanTab weekly-plan loading                                         *)
(*   - WorkoutsTab session stepper                                         *)
(*   - VoiceTab turn controller                                            *)
(*   - PostureTab classification (makeFeedback) and camera sessions        *)
(*   - localStorage load / save functions of the persisted entities        *)
(*   - server routes /api/ai/chat and deepseekHandler                      *)
(*   - LoginPage form validation and submit                                *)
(*   - PlanTab subscription and coach booking                              *)
(* Each subsystem has its own specification (SpecLoader, SpecChat,         *)
(* SpecPlan, SpecWorkout, SpecVoice, SpecFeedback, SpecPosture,            *)
(* SpecStorage, SpecProxy, SpecLogin, SpecSub); the variables of the       *)
(* other subsystems stay at their initial values.                          *)
(***************************************************************************)
EXTENDS Integers, Sequences, FiniteSets, TLC

VARIABLES
  \* ---- useModelLoader ----
  registered,     \* ModelManager.getModels() has a model of the category
  modelStatus,    \* model.status of the picked model
  loadedModel,    \* ModelManager.getLoadedModel(category) is non-null
  inflightRef,    \* inflightRef.current: 0 = null, else the promise (operation) id
  ops,            \* the async IIFEs started by ensure: position, promise value, call counts
  calls,          \* the ensure() calls made so far: what was in flight, what they got
  loaderState,    \* state
  loaderError     \* error

VARIABLES
  \* ---- ChatTab ----
  sessions,           \* sessions: sequence of [id, messages]
  activeId,           \* activeId: 0 stands for ""
  generating,         \* generating
  apiState,           \* apiState
  input,              \* input: "" or some non-blank text
  abortRef,           \* abortRef.current: 0 = null, else the controller of request r
  assistantIndexRef,  \* assistantIndexRef.current: -1 = null, else a 0-based index
  reqs,               \* the generateCoachReply calls: position, aborted, send's closure
  nextSid,            \* the next id uid() hands out
  cancelledPh,        \* history: placeholders of the sends that were cancelled
  chatEvent           \* history: the handler that ran last

VARIABLES
  \* ---- PlanTab ----
  planStored,     \* what localStorage holds under STORAGE_KEY, as far as weeklyPlan goes
  planWeekly,     \* persisted.weeklyPlan once loadPersisted has run
  planLoaded,     \* loadPersisted has run
  planEdits       \* history: foreign writes made to the stored value

VARIABLES
  \* ---- WorkoutsTab ----
  wkSession,      \* session (NoSession stands for null)
  wkHistory,      \* persisted.history
  wkPlan,         \* persisted.weeklyPlan is non-null
  tickRef,        \* tickRef.current holds an interval
  lastTickRef,    \* lastTickRef.current
  wkNow,          \* Date.now(), in clock units
  wkStarts,       \* history: startWorkout calls so far
  wkEvent,        \* history: the handler that ran last
  wkPrevIdx,      \* history: currentStepIndex before that handler (-1 without session)
  wkSetsDone,     \* history: completeSet calls since the current step was entered
  wkTickQueued,   \* an updater dispatched by the interval callback awaits its render
  wkIntervals,    \* intervals this component registered with window.setInterval and not cleared
  wkMounted,      \* WorkoutsTab is mounted (the workouts tab is the active tab)
  wkCountFrom,    \* history: Date.now() when the countdown of the current timed step
                  \* started from the step's full duration, -1 once it was paused or left
  wkPauseLog      \* history: Date.now() at the last pause (at) and at the resume that
                  \* followed it (back), -1 where another handler ran since

VARIABLES
  \* ---- VoiceTab ----
  voiceState,     \* voiceState
  voiceError,     \* error: "" stands for null
  transcript,     \* transcript: "" or some words
  response,       \* response
  audioLevel,     \* audioLevel: 0, or 1 for any level above it
  recognitionRef, \* recognitionRef.current: 0 = null, else the recognizer of call c
  isListeningRef, \* isListeningRef.current
  finalTextRef,   \* finalTextRef.current is not empty
  apiAbortRef,    \* apiAbortRef.current: 0 = null, else the controller of turn c
  streamRef,      \* streamRef.current: 0 = null, else the MediaStream of call c
  audioCtxRef,    \* audioCtxRef.current: 0 = null, else the AudioContext of call c
  rafRef,         \* rafRef.current: 0 = null, else the last frame requested by call c
  vTurns,         \* what each startListening call has created, and how far it is
  vFrames,        \* the calls whose tick has an animation frame scheduled
  vHasSpeech,     \* hasWebSpeech()
  voiceEvent      \* history: the handler that ran last, and the call it ran for

VARIABLES
  \* ---- PostureTab ----
  poExercise,       \* exercise
  poCameraOn,       \* cameraOn
  poLoading,        \* loading
  poErr,            \* err is not null
  poFeedback,       \* feedback.status
  poHistory,        \* history
  poStored,         \* what localStorage holds under HISTORY_KEY
  poLandmarker,     \* landmarkerRef.current is not null
  poInitPending,    \* init() of the current effect has not settled
  poStaleInits,     \* init() calls of cleaned-up effects that have not settled
  poSessionActive,  \* sessionActiveRef.current
  poSessionStart,   \* sessionStartRef.current, in clock units
  poStats,          \* statsRef.current; numeric counts the frames that had metrics
  poNow,            \* Date.now(), in clock units
  poCamPending,     \* startCamera calls awaiting the camera
  poSrcObject,      \* video.srcObject holds a stream
  poRaf,            \* loop has a frame requested
  poSessions,       \* history: sessions started so far
  poSwitches,       \* history: exercise changes so far
  poDeletes,        \* history: deleteHistory and clearHistory calls so far
  poFrameEx,        \* history: the exercises loop classified the session's frames under
  \* ---- makeFeedback ----
  fbEx,             \* ex
  fbPose,           \* res: the length of landmarks[0] and the landmarks read
  fbOut             \* the Feedback returned, NoFeedback before the call

VARIABLES
  \* ---- browser storage: load and save of the persisted entities ----
  stEntity,         \* the entity loaded or saved
  stOp,             \* "load" or "save"
  stStore,          \* localStorage: whether its calls throw, and what the key holds
  stResult          \* how the call ended: "pending" before it

VARIABLES
  \* ---- server: POST /api/ai/chat ----
  pxHandler,        \* the handler serving the route
  pxKey,            \* process.env holds the API key
  pxBody,           \* the request body as sent
  pxPhase,          \* "received", "upstream" (awaiting the provider), "responded"
  pxUpstream,       \* history: fetch calls made to the provider
  pxAnswer,         \* history: what the provider answered
  pxResp            \* the response sent: status and JSON body

VARIABLES
  \* ---- LoginPage ----
  lgMode,           \* mode
  lgEmail,          \* email
  lgPassword,       \* password
  lgName,           \* name
  lgRemember,       \* remember
  lgBusy,           \* busy: the 650 ms timer is pending
  lgError,          \* error: "" stands for null
  lgStorageFails,   \* storage.setItem throws
  lgLocal,          \* localStorage under fitnesscoach:auth:v1 ("" without item)
  lgSession,        \* sessionStorage under fitnesscoach:auth:v1
  lgSuccess,        \* history: onSuccess calls
  lgSubmits         \* history: presses of the submit button

VARIABLES
  \* ---- PlanTab: subscription and coach booking ----
  sbSubscription,     \* persisted.subscription (NoSubscription stands for null)
  sbBookedCoachId,    \* persisted.bookedCoachId: 0 = null
  sbSelectedCoachId,  \* selectedCoachId: 0 = null
  sbSelectedTier,     \* selectedTier
  sbCheckoutOpen,     \* checkoutOpen
  sbCheckoutMode,     \* checkoutMode
  sbOps               \* history: handlers run so far

loaderVars == <<registered, modelStatus, loadedModel, inflightRef, ops, calls,
                loaderState, loaderError>>

chatVars == <<sessions, activeId, generating, apiState, input, abortRef,
              assistantIndexRef, reqs, nextSid, cancelledPh, chatEvent>>

planVars == <<planStored, planWeekly, planLoaded, planEdits>>

workoutVars == <<wkSession, wkHistory, wkPlan, tickRef, lastTickRef, wkNow, wkStarts,
                 wkEvent, wkPrevIdx, wkSetsDone, wkTickQueued, wkIntervals, wkMounted,
                 wkCountFrom, wkPauseLog>>

voiceVars == <<voiceState, voiceError, transcript, response, audioLevel, recognitionRef,
               isListeningRef, finalTextRef, apiAbortRef, streamRef, audioCtxRef, rafRef,
               vTurns, vFrames, vHasSpeech, voiceEvent>>

postureVars == <<poExercise, poCameraOn, poLoading, poErr, poFeedback, poHistory, poStored,
                 poLandmarker, poInitPending, poStaleInits, poSessionActive,
                 poSessionStart, poStats, poNow, poCamPending, poSrcObject,
                 poRaf, poSessions, poSwitches, poDeletes, poFrameEx>>

feedbackVars == <<fbEx, fbPose, fbOut>>

storageVars == <<stEntity, stOp, stStore, stResult>>

proxyVars == <<pxHandler, pxKey, pxBody, pxPhase, pxUpstream, pxAnswer, pxResp>>

loginVars == <<lgMode, lgEmail, lgPassword, lgName, lgRemember, lgBusy, lgError,
               lgStorageFails, lgLocal, lgSession, lgSuccess, lgSubmits>>

subVars == <<sbSubscription, sbBookedCoachId, sbSelectedCoachId, sbSelectedTier,
             sbCheckoutOpen, sbCheckoutMode, sbOps>>

tabVars == <<loaderVars, chatVars, planVars, workoutVars, voiceVars, postureVars,
             feedbackVars>>
otherVars == <<storageVars, proxyVars, loginVars, subVars>>

\* what each subsystem's actions leave alone
notLoader == <<chatVars, planVars, workoutVars, voiceVars, postureVars, feedbackVars,
  otherVars>>
notChat == <<loaderVars, planVars, workoutVars, voiceVars, postureVars, feedbackVars,
  otherVars>>
notPlan == <<loaderVars, chatVars, workoutVars, voiceVars, postureVars, feedbackVars,
  otherVars>>
notWorkout == <<loaderVars, chatVars, planVars, voiceVars, postureVars, feedbackVars,
  otherVars>>
notVoice == <<loaderVars, chatVars, planVars, workoutVars, postureVars, feedbackVars,
  otherVars>>
notPosture == <<loaderVars, chatVars, planVars, workoutVars, voiceVars, feedbackVars,
  otherVars>>
notFeedback == <<loaderVars, chatVars, planVars, workoutVars, voiceVars, postureVars,
  otherVars>>

notStorage == <<tabVars, proxyVars, loginVars, subVars>>
notProxy == <<tabVars, storageVars, loginVars, subVars>>
notLogin == <<tabVars, storageVars, proxyVars, subVars>>
notSub == <<tabVars, storageVars, proxyVars, loginVars>>

vars == <<tabVars, otherVars>>

----------------------------------------------------------------------------
(***************************************************************************)
(* useModelLoader                                                          *)
(***************************************************************************)
MaxOps == 3      \* operations (async IIFEs) a behaviour may start
MaxCalls == 4    \* ensure() calls a behaviour may make

OpIds == 1..MaxOps

Pending(pc) == pc \in {"downloading", "loading", "loadSettledOk", "loadSettledFail"}

\* The operations that are downloading or loading.
InFlight == {k \in OpIds : Pending(ops[k].pc)}

NextOp == IF \E k \in OpIds : ops[k].pc = "unused"
          THEN CHOOSE k \in OpIds : ops[k].pc = "unused" /\ \A j \in OpIds : j < k => ops[j].pc # "unused"
          ELSE 0

\* pickModelId: null when no model of the category is registered.
pickModelId == IF registered THEN "m1" ELSE "null"

\* What a call recorded at the moment it was made.
CallRec(got) == [during |-> InFlight, got |-> got]

\* line 67, faulty variant: the cached promise is ignored
HasInflight_NoDedup == FALSE

\* Line 67: if (inflightRef.current) ...
HasInflight == inflightRef # 0

\* ensure(), the synchronous part of one call: lines 57-131 up to the first await.
Ensure ==
  /\ UNCHANGED notLoader
  /\ Len(calls) < MaxCalls
  /\ IF loadedModel
     THEN \* lines 59-64
          /\ loaderState' = "ready"
          /\ calls' = Append(calls, CallRec(-1))
          /\ UNCHANGED <<registered, modelStatus, loadedModel, inflightRef, ops, loaderError>>
     ELSE IF HasInflight
     THEN \* line 67
          /\ calls' = Append(calls, CallRec(inflightRef))
          /\ UNCHANGED <<registered, modelStatus, loadedModel, inflightRef, ops,
                         loaderState, loaderError>>
     ELSE \* lines 69-130
          /\ NextOp # 0
          /\ LET k == NextOp IN
             /\ calls' = Append(calls, CallRec(k))
             /\ IF pickModelId = "null"
                THEN \* lines 74-78: the IIFE returns false before any await; its finally
                     \* (line 126) runs before the assignment of line 69 stores the promise
                     /\ loaderError' = "noModel"
                     /\ loaderState' = "error"
                     /\ ops' = [ops EXCEPT ![k] = [pc |-> "false", dl |-> 0, ld |-> 0]]
                     /\ inflightRef' = k
                ELSE IF modelStatus \notin {"downloaded", "loaded"}
                THEN \* lines 92-101
                     /\ loaderError' = "none"
                     /\ loaderState' = "downloading"
                     /\ ops' = [ops EXCEPT ![k] = [pc |-> "downloading", dl |-> 1, ld |-> 0]]
                     /\ inflightRef' = k
                ELSE \* lines 110-111
                     /\ loaderError' = "none"
                     /\ loaderState' = "loading"
                     /\ ops' = [ops EXCEPT ![k] = [pc |-> "loading", dl |-> 0, ld |-> 1]]
                     /\ inflightRef' = k
          /\ UNCHANGED <<registered, modelStatus, loadedModel>>

\* await ModelManager.downloadModel(id) resolves: lines 101-111.
DownloadResolves(k) ==
  /\ UNCHANGED notLoader
  /\ ops[k].pc = "downloading"
  /\ modelStatus' = "downloaded"
  /\ loaderState' = "loading"
  /\ ops' = [ops EXCEPT ![k].pc = "loading", ![k].ld = @ + 1]
  /\ UNCHANGED <<registered, loadedModel, inflightRef, calls, loaderError>>

\* await ModelManager.downloadModel(id) rejects: lines 103-106, 121-127.
DownloadRejects(k) ==
  /\ UNCHANGED notLoader
  /\ ops[k].pc = "downloading"
  /\ loaderError' = "exception"
  /\ loaderState' = "error"
  /\ ops' = [ops EXCEPT ![k].pc = "false"]
  /\ inflightRef' = 0
  /\ UNCHANGED <<registered, modelStatus, loadedModel, calls>>

\* ModelManager.loadModel settles inside the SDK; the continuation of line 111
\* runs later, as a microtask.
LoadSettles(k, ok) ==
  /\ UNCHANGED notLoader
  /\ ops[k].pc = "loading"
  /\ ops' = [ops EXCEPT ![k].pc = IF ok THEN "loadSettledOk" ELSE "loadSettledFail"]
  /\ loadedModel' = (loadedModel \/ ok)
  /\ modelStatus' = IF ok THEN "loaded" ELSE modelStatus
  /\ UNCHANGED <<registered, inflightRef, calls, loaderState, loaderError>>

\* The continuation after await ModelManager.loadModel: lines 113-127.
LoadContinues(k) ==
  /\ UNCHANGED notLoader
  /\ ops[k].pc \in {"loadSettledOk", "loadSettledFail"}
  /\ IF ops[k].pc = "loadSettledOk"
     THEN /\ loaderState' = "ready"
          /\ ops' = [ops EXCEPT ![k].pc = "true"]
          /\ UNCHANGED loaderError
     ELSE /\ loaderError' = "loadFailed"
          /\ loaderState' = "error"
          /\ ops' = [ops EXCEPT ![k].pc = "false"]
  /\ inflightRef' = 0
  /\ UNCHANGED <<registered, modelStatus, loadedModel, calls>>

\* await ModelManager.loadModel rejects: lines 121-127.
LoadRejects(k) ==
  /\ UNCHANGED notLoader
  /\ ops[k].pc = "loading"
  /\ loaderError' = "exception"
  /\ loaderState' = "error"
  /\ ops' = [ops EXCEPT ![k].pc = "false"]
  /\ inflightRef' = 0
  /\ UNCHANGED <<registered, modelStatus, loadedModel, calls>>

\* The SDK registers the models of the category (initSDK), outside the hook.
RegisterModels ==
  /\ UNCHANGED notLoader
  /\ ~registered
  /\ registered' = TRUE
  /\ UNCHANGED <<modelStatus, loadedModel, inflightRef, ops, calls, loaderState, loaderError>>

InitLoader ==
  /\ registered \in BOOLEAN
  /\ modelStatus \in {"registered", "downloaded"}
  /\ loadedModel = FALSE
  /\ inflightRef = 0
  /\ ops = [k \in OpIds |-> [pc |-> "unused", dl |-> 0, ld |-> 0]]
  /\ calls = <<>>
  /\ loaderState = "idle"
  /\ loaderError = "none"

\* The hook before any ensure(), as the other specifications hold it.
IdleLoader ==
  /\ registered = TRUE
  /\ modelStatus = "registered"
  /\ loadedModel = FALSE
  /\ inflightRef = 0
  /\ ops = [k \in OpIds |-> [pc |-> "unused", dl |-> 0, ld |-> 0]]
  /\ calls = <<>>
  /\ loaderState = "idle"
  /\ loaderError = "none"

NextLoader ==
  \/ Ensure
  \/ RegisterModels
  \/ \E k \in OpIds : DownloadResolves(k)
  \/ \E k \in OpIds : DownloadRejects(k)
  \/ \E k \in OpIds, ok \in BOOLEAN : LoadSettles(k, ok)
  \/ \E k \in OpIds : LoadContinues(k)
  \/ \E k \in OpIds : LoadRejects(k)

\* The outcome a call resolves to: "pending" until its promise settles.
CallOutcome(c) == IF c.got = -1 THEN "true"
                  ELSE IF Pending(ops[c.got].pc) THEN "pending" ELSE ops[c.got].pc

OpOutcome(k) == IF Pending(ops[k].pc) THEN "pending" ELSE ops[k].pc

----------------------------------------------------------------------------
(***************************************************************************)
(* ChatTab                                                                 *)
(***************************************************************************)
MaxSessions == 2   \* sessions the list may hold
MaxSid == 3        \* session ids uid() may hand out
MaxMsgs == 4       \* messages one session may hold
MaxReq == 2        \* completion requests alive at once

ReqIds == 1..MaxReq

UserMsg == [role |-> "user", text |-> "u", stats |-> FALSE]
\* line 305: the assistant placeholder
Placeholder == [role |-> "assistant", text |-> "", stats |-> FALSE]

NewSession(id) == [id |-> id, messages |-> <<>>]

\* lines 127-131: activeSession (0 when there is none) and messages
ActiveIdx == IF \E i \in 1..Len(sessions) : sessions[i].id = activeId
             THEN CHOOSE i \in 1..Len(sessions) : sessions[i].id = activeId
             ELSE 0
ActiveMessages == IF ActiveIdx = 0 THEN <<>> ELSE sessions[ActiveIdx].messages

\* the messages of the session with id aid (ids are unique), <<>> without one
MessagesOf(ss, aid) ==
  LET at == {i \in 1..Len(ss) : ss[i].id = aid} IN
  IF at = {} THEN <<>> ELSE ss[CHOOSE i \in at : TRUE].messages

\* lines 213-228: updateActiveSessionMessages, bound to the activeId of a render;
\* next is what the updater makes of MessagesOf(ss, aid)
updateActiveSessionMessages(ss, aid, next) ==
  [i \in 1..Len(ss) |-> IF ss[i].id # aid THEN ss[i]
                        ELSE [ss[i] EXCEPT !.messages = next]]

\* a request slot that holds no call of generateCoachReply
NoRequest == [phase |-> "unused", aborted |-> FALSE, aid |-> 0, ph |-> <<0, -1>>]

\* the asynchronous work of a request is still to run
Live(r) == reqs[r].phase \in {"fetch", "okBody", "errBody"}
\* a faulty variant: the handlers of an aborted request wait like any other task
MicrotaskPending_Never == FALSE

\* an abort rejects the pending promise at once: its handlers are queued microtasks
\* and run before the next task (user event, network event)
MicrotaskPending == \E r \in ReqIds : Live(r) /\ reqs[r].aborted
FreeReq == CHOOSE r \in ReqIds : ~Live(r) /\ \A q \in ReqIds : q < r => Live(q)

\* a faulty variant: the placeholder slot is never overwritten
WriteAt_Skip(msgs, idx, m) == msgs

\* lines 325-337, 347-354: the updater that overwrites the placeholder slot
WriteAt(msgs, idx, m) ==
  IF idx = -1 \/ idx >= Len(msgs) THEN msgs ELSE [msgs EXCEPT ![idx + 1] = m]

\* lines 358-362: finally of send, for request r
SendFinally(r) ==
  /\ abortRef' = 0
  /\ assistantIndexRef' = -1
  /\ generating' = FALSE
  /\ reqs' = [reqs EXCEPT ![r] = NoRequest]

\* lines 321-339: generateCoachReply resolved with replyText
SendResolved(r, replyText) ==
  /\ sessions' = updateActiveSessionMessages(sessions, reqs[r].aid,
        WriteAt(MessagesOf(sessions, reqs[r].aid), assistantIndexRef,
           [role |-> "assistant",
            text |-> IF replyText = "" THEN "No response." ELSE replyText,
            stats |-> TRUE]))
  /\ apiState' = "ready"
  /\ SendFinally(r)

\* lines 340-357: generateCoachReply rejected; err is "AbortError" (a DOMException of
\* that name) or any other error
SendRejected(r, err) ==
  /\ IF err = "AbortError"
     THEN /\ apiState' = "ready"
          /\ UNCHANGED sessions
     ELSE /\ sessions' = updateActiveSessionMessages(sessions, reqs[r].aid,
                WriteAt(MessagesOf(sessions, reqs[r].aid), assistantIndexRef,
                   [role |-> "assistant", text |-> "Error", stats |-> FALSE]))
          /\ apiState' = "error"
  /\ SendFinally(r)

\* line 496: typing into the textarea (disabled while generating), line 443: a chip
SetInput ==
  /\ ~MicrotaskPending
  /\ ~generating
  /\ input = ""
  /\ input' = "text"
  /\ chatEvent' = "setInput"
  /\ UNCHANGED <<sessions, activeId, generating, apiState, abortRef, assistantIndexRef,
                 reqs, nextSid, cancelledPh>>
  /\ UNCHANGED notChat

\* lines 289-319: send up to the fetch of generateCoachReply (line 577)
Send ==
  /\ ~MicrotaskPending
  /\ input # "" /\ ~generating
  /\ Len(ActiveMessages) + 2 <= MaxMsgs
  /\ ActiveIdx = 0 => (nextSid <= MaxSid /\ Len(sessions) < MaxSessions)
  /\ LET r == FreeReq
         created == ActiveIdx = 0
         \* line 293: ensureActiveSession (lines 198-211)
         ss1 == IF created THEN <<NewSession(nextSid)>> \o sessions ELSE sessions
         \* lines 303-312 run only for a session whose id is the closure's activeId
         appended == \E i \in 1..Len(ss1) : ss1[i].id = activeId
         idx == Len(ActiveMessages) + 1
     IN
       /\ sessions' = updateActiveSessionMessages(ss1, activeId,
                        MessagesOf(ss1, activeId) \o <<UserMsg, Placeholder>>)
       /\ activeId' = IF created THEN nextSid ELSE activeId
       /\ nextSid' = IF created THEN nextSid + 1 ELSE nextSid
       /\ input' = ""
       /\ generating' = TRUE
       /\ apiState' = "loading"
       /\ abortRef' = r
       /\ assistantIndexRef' = IF appended THEN idx ELSE assistantIndexRef
       /\ reqs' = [q \in ReqIds |->
            IF q = r THEN [phase |-> "fetch", aborted |-> FALSE, aid |-> activeId,
                           ph |-> IF appended THEN <<activeId, idx>> ELSE <<0, -1>>]
            ELSE IF q = abortRef THEN [reqs[q] EXCEPT !.aborted = TRUE]   \* line 300
            ELSE reqs[q]]
  /\ chatEvent' = "send"
  /\ UNCHANGED cancelledPh
  /\ UNCHANGED notChat

\* line 577: fetch resolves with a response, r.ok or not
FetchResponds(r, ok) ==
  /\ ~MicrotaskPending
  /\ reqs[r].phase = "fetch"
  /\ reqs' = [reqs EXCEPT ![r].phase = IF ok THEN "okBody" ELSE "errBody"]
  /\ chatEvent' = "fetchResponds"
  /\ UNCHANGED <<sessions, activeId, generating, apiState, input, abortRef,
                 assistantIndexRef, nextSid, cancelledPh>>
  /\ UNCHANGED notChat

\* line 577: fetch rejects with a network error (a TypeError)
FetchFails(r) ==
  /\ ~MicrotaskPending
  /\ reqs[r].phase = "fetch"
  /\ SendRejected(r, "TypeError")
  /\ chatEvent' = "error"
  /\ UNCHANGED <<activeId, input, nextSid, cancelledPh>>
  /\ UNCHANGED notChat

\* lines 596-600: the body of a 2xx response has arrived: a reply text, an empty
\* text, or a body that is no JSON (r.json() rejects with a SyntaxError)
OkBodyDone(r, body) ==
  /\ ~MicrotaskPending
  /\ reqs[r].phase = "okBody"
  /\ IF body = "badJson"
     THEN SendRejected(r, "SyntaxError") /\ chatEvent' = "error"
     ELSE SendResolved(r, body) /\ chatEvent' = "reply"
  /\ UNCHANGED <<activeId, input, nextSid, cancelledPh>>
  /\ UNCHANGED notChat

\* lines 584-594: the body of a non-2xx response has arrived; an Error is thrown
ErrBodyDone(r) ==
  /\ ~MicrotaskPending
  /\ reqs[r].phase = "errBody"
  /\ SendRejected(r, "Error")
  /\ chatEvent' = "error"
  /\ UNCHANGED <<activeId, input, nextSid, cancelledPh>>
  /\ UNCHANGED notChat

\* lines 281-287: handleCancel (the button is rendered while generating, line 501)
HandleCancel ==
  /\ ~MicrotaskPending
  /\ generating
  /\ reqs' = [q \in ReqIds |-> IF q = abortRef THEN [reqs[q] EXCEPT !.aborted = TRUE]
                               ELSE reqs[q]]
  /\ abortRef' = 0
  /\ assistantIndexRef' = -1
  /\ generating' = FALSE
  /\ apiState' = "ready"
  /\ cancelledPh' = IF abortRef # 0 /\ reqs[abortRef].ph[2] # -1
                    THEN cancelledPh \cup {reqs[abortRef].ph} ELSE cancelledPh
  /\ chatEvent' = "cancel"
  /\ UNCHANGED <<sessions, activeId, input, nextSid>>
  /\ UNCHANGED notChat

\* What generateCoachReply rejects with once its signal is aborted. While fetch or
\* the r.json() of line 596 is pending, the AbortError reaches send. While the
\* r.json() of line 587 is pending, its AbortError is swallowed by the catch of
\* line 589 and r.text() (line 590) rejects with a TypeError: the body is in use.
AbortedError(phase) == IF phase = "errBody" THEN "TypeError" ELSE "AbortError"

\* The pending await of an aborted request rejects; send's catch and finally run.
AbortSettles(r) ==
  /\ Live(r) /\ reqs[r].aborted
  /\ SendRejected(r, AbortedError(reqs[r].phase))
  /\ chatEvent' = "abortSettled"
  /\ UNCHANGED <<activeId, input, nextSid, cancelledPh>>
  /\ UNCHANGED notChat

\* lines 230-243: newChat
NewChat ==
  /\ ~MicrotaskPending
  /\ nextSid <= MaxSid /\ Len(sessions) < MaxSessions
  /\ sessions' = <<NewSession(nextSid)>> \o sessions
  /\ activeId' = nextSid
  /\ nextSid' = nextSid + 1
  /\ input' = ""
  /\ chatEvent' = "newChat"
  /\ UNCHANGED <<generating, apiState, abortRef, assistantIndexRef, reqs, cancelledPh>>
  /\ UNCHANGED notChat

\* lines 546-548: picking a session in the history drawer
SelectSession(i) ==
  /\ ~MicrotaskPending
  /\ i \in 1..Len(sessions)
  /\ sessions[i].id # activeId
  /\ activeId' = sessions[i].id
  /\ chatEvent' = "select"
  /\ UNCHANGED <<sessions, generating, apiState, input, abortRef, assistantIndexRef,
                 reqs, nextSid, cancelledPh>>
  /\ UNCHANGED notChat

\* lines 260-265: the updater of deleteChat for the session with id sid
DeleteNext(prev, sid) == SelectSeq(prev, LAMBDA x : x.id # sid)

\* lines 254-267: deleteChat, confirmed (the button is disabled without activeSession)
DeleteChat ==
  /\ ~MicrotaskPending
  /\ ActiveIdx # 0
  /\ LET next == DeleteNext(sessions, activeId) IN
       /\ activeId' = IF Len(next) > 0 THEN next[1].id ELSE 0
       /\ sessions' = IF Len(next) > 0 THEN next ELSE sessions
       /\ cancelledPh' = IF Len(next) > 0
                         THEN {p \in cancelledPh : p[1] # activeId} ELSE cancelledPh
  /\ chatEvent' = "delete"
  /\ UNCHANGED <<generating, apiState, input, abortRef, assistantIndexRef, reqs, nextSid>>
  /\ UNCHANGED notChat

\* lines 393-394: Clear, disabled while generating or without messages
ClearChat ==
  /\ ~MicrotaskPending
  /\ ~generating /\ Len(ActiveMessages) > 0
  /\ sessions' = updateActiveSessionMessages(sessions, activeId, <<>>)
  /\ cancelledPh' = {p \in cancelledPh : p[1] # activeId}
  /\ chatEvent' = "clear"
  /\ UNCHANGED <<activeId, generating, apiState, input, abortRef, assistantIndexRef,
                 reqs, nextSid>>
  /\ UNCHANGED notChat

\* lines 125-126, 145-160: a first visit: storage is empty and the mount effect
\* creates one session and makes it active
InitChat ==
  /\ sessions = <<NewSession(1)>>
  /\ activeId = 1
  /\ generating = FALSE
  /\ apiState = "ready"
  /\ input = ""
  /\ abortRef = 0
  /\ assistantIndexRef = -1
  /\ reqs = [r \in ReqIds |-> NoRequest]
  /\ nextSid = 2
  /\ cancelledPh = {}
  /\ chatEvent = "init"

NextChat ==
  \/ SetInput
  \/ Send
  \/ \E r \in ReqIds, ok \in BOOLEAN : FetchResponds(r, ok)
  \/ \E r \in ReqIds : FetchFails(r)
  \/ \E r \in ReqIds, body \in {"reply", "", "badJson"} : OkBodyDone(r, body)
  \/ \E r \in ReqIds : ErrBodyDone(r)
  \/ HandleCancel
  \/ \E r \in ReqIds : AbortSettles(r)
  \/ NewChat
  \/ \E i \in 1..MaxSessions : SelectSession(i)
  \/ DeleteChat
  \/ ClearChat

----------------------------------------------------------------------------
(***************************************************************************)
(* PlanTab: loading the weekly plan                                        *)
(***************************************************************************)
MaxEdits == 2    \* foreign writes to the stored weekly plan

PlanDayNames == {"Mon", "Tue", "Wed", "Thu", "Fri", "Sat", "Sun"}

DEFAULT_PLAN == <<
  [day |-> "Mon", focus |-> "Chest & Triceps", status |-> "Pending"],
  [day |-> "Tue", focus |-> "Back & Biceps", status |-> "Pending"],
  [day |-> "Wed", focus |-> "Recovery / Mobility", status |-> "Rest"],
  [day |-> "Thu", focus |-> "Legs & Shoulders", status |-> "Pending"],
  [day |-> "Fri", focus |-> "Cardio (Zone 2)", status |-> "Pending"],
  [day |-> "Sat", focus |-> "Full Body (Strength)", status |-> "Pending"],
  [day |-> "Sun", focus |-> "Rest", status |-> "Rest"] >>

isPlanStatus(v) == v \in {"Completed", "Pending", "Rest"}
isPlanDayName(v) == v \in PlanDayNames

\* A stored array element: null, or an object; a field that is absent or no string
\* is "?" here.
NullEntry == [day |-> "null", focus |-> "?", status |-> "?"]
EditEntries == {
  NullEntry,
  [day |-> "Mon", focus |-> "?", status |-> "Done"],
  [day |-> "Tue", focus |-> "Legs", status |-> "Completed"],
  [day |-> "Funday", focus |-> "Legs", status |-> "Rest"] }

\* lines 202-212: the map callback; NullEntry stands for the dropped elements
SanitizeEntry(x) ==
  IF x = NullEntry \/ ~isPlanDayName(x.day) THEN NullEntry
  ELSE [day |-> x.day,
        focus |-> IF x.focus = "?" \/ x.focus = "" THEN "Workout" ELSE x.focus,
        status |-> IF isPlanStatus(x.status) THEN x.status ELSE "Pending"]

\* lines 215-216: seven distinct day names among the mapped entries
DaysComplete(mapped) == Cardinality({mapped[i].day : i \in 1..Len(mapped)}) = 7

\* lines 198-219: sanitizeWeeklyPlan; input is [isArray, items]
sanitizeWeeklyPlan(in) ==
  IF ~in.isArray THEN DEFAULT_PLAN
  ELSE LET all == [i \in 1..Len(in.items) |-> SanitizeEntry(in.items[i])]
           mapped == SelectSeq(all, LAMBDA x : x # NullEntry)
       IN IF ~DaysComplete(mapped) THEN DEFAULT_PLAN ELSE mapped

\* lines 221-245: loadPersisted().weeklyPlan. stored.kind is "missing" (no item),
\* "badJson" (JSON.parse throws), "noArray" (weeklyPlan absent or no array), "array"
loadPersistedWeeklyPlan(stored) ==
  IF stored.kind \in {"missing", "badJson"} THEN DEFAULT_PLAN
  ELSE sanitizeWeeklyPlan([isArray |-> stored.kind = "array", items |-> stored.items])

\* Another writer (an older version, the user's dev tools) changes one element of
\* the stored weeklyPlan, appends one, or removes one.
EditStoredPlan ==
  /\ planStored.kind = "array" /\ ~planLoaded
  /\ planEdits < MaxEdits
  /\ \E items \in
        {[planStored.items EXCEPT ![i] = e] : i \in 1..Len(planStored.items), e \in EditEntries}
        \cup {Append(planStored.items, e) : e \in EditEntries}
        \cup {SelectSeq([j \in 1..Len(planStored.items) |->
                           IF j = i THEN NullEntry ELSE planStored.items[j]],
                        LAMBDA x : x # NullEntry) : i \in 1..Len(planStored.items)} :
        planStored' = [planStored EXCEPT !.items = items]
  /\ planEdits' = planEdits + 1
  /\ UNCHANGED <<planWeekly, planLoaded>>
  /\ UNCHANGED notPlan

\* line 296: useState(() => loadPersisted()) on mount
LoadPlan ==
  /\ ~planLoaded
  /\ planWeekly' = loadPersistedWeeklyPlan(planStored)
  /\ planLoaded' = TRUE
  /\ UNCHANGED <<planStored, planEdits>>
  /\ UNCHANGED notPlan

InitPlan ==
  /\ planStored \in {[kind |-> k, items |-> IF k = "array" THEN DEFAULT_PLAN ELSE <<>>] :
                       k \in {"missing", "badJson", "noArray", "array"}}
  /\ planWeekly = <<>>
  /\ planLoaded = FALSE
  /\ planEdits = 0

\* The plan tab before it is mounted, as the other specifications hold it.
IdlePlan ==
  /\ planStored = [kind |-> "missing", items |-> <<>>]
  /\ planWeekly = <<>>
  /\ planLoaded = FALSE
  /\ planEdits = 0

NextPlan ==
  \/ EditStoredPlan
  \/ LoadPlan

----------------------------------------------------------------------------
(***************************************************************************)
(* WorkoutsTab: the session stepper                                        *)
(***************************************************************************)
UnitsPerSec == 2   \* clock units per second (the source counts 1000 ms)
MaxTime == 6       \* clock units a behaviour may last
MaxStarts == 2     \* startWorkout calls a behaviour may make
ShortSec == 1      \* the shorter step duration of the catalog, scaled down
LongSec == 2       \* the longer step duration of the catalog, scaled down
FewSets == 2       \* the smaller set count of the catalog, scaled down
ManySets == 3      \* the larger set count of the catalog, scaled down
HistoryCap == 60   \* slice(0, 60)

\* A step: durationSec or sets, -1 where the catalog leaves the field out.
Timed(d) == [durationSec |-> d, sets |-> -1, restSec |-> -1]
Strength(n) == [durationSec |-> -1, sets |-> n, restSec |-> LongSec]

\* The catalog, reduced to its two shapes: timed steps only (hiit_full_body_20,
\* yoga_30, cardio_zone2_30), and strength steps between a timed warm-up and a
\* timed cool-down (upper_power_45, core_15, leg_day_50).
WORKOUTS ==
  [timed |-> <<Timed(LongSec), Timed(ShortSec)>>,
   strength |-> <<Timed(ShortSec), Strength(FewSets), Strength(ManySets), Timed(ShortSec)>>]

WorkoutIds == {"timed", "strength"}

NoSession == [activeWorkoutId |-> "", startedAt |-> 0, paused |-> FALSE,
              currentStepIndex |-> 0, currentSet |-> 0, remainingSec |-> 0]

StepCount(w) == Len(WORKOUTS[w])

\* undefined, as a read outside the step list yields it
NoStep == [durationSec |-> -1, sets |-> -1, restSec |-> -1]

\* w.steps[i], i counted from 0 as in the source
StepAt(w, i) == IF i >= 0 /\ i < StepCount(w) THEN WORKOUTS[w][i + 1] ELSE NoStep

\* x ?? y for the numeric fields
OrElse(x, y) == IF x = -1 THEN y ELSE x

\* line 100, faulty variant: no clamping
clamp_Identity(n, min, max) == n

\* lines 100-102: clamp
clamp(n, min, max) ==
  LET lo == IF max < n THEN max ELSE n IN IF min > lo THEN min ELSE lo

\* lines 562-572: the CompletedSession built from a session
Completed(s) ==
  LET secs == (wkNow - s.startedAt) \div UnitsPerSec IN
  [workoutId |-> s.activeWorkoutId, totalSeconds |-> IF secs < 1 THEN 1 ELSE secs]

\* lines 574, 1107: [completed, ...p.history].slice(0, 60)
PushHistory(h, rec) ==
  LET all == <<rec>> \o h IN
  IF Len(all) > HistoryCap THEN SubSeq(all, 1, HistoryCap) ELSE all

\* lines 506-526: advanceStep; finish tells that finishSession(prev, w) was called
advanceStep(prev, fromTimer) ==
  LET w == prev.activeWorkoutId
      step == StepAt(w, prev.currentStepIndex)
      nextIndex == clamp(prev.currentStepIndex + 1, 0, StepCount(w))
  IN IF step = NoStep THEN [session |-> prev, finish |-> FALSE]
     ELSE IF step.sets > 0 /\ fromTimer THEN [session |-> prev, finish |-> FALSE]
     ELSE IF nextIndex >= StepCount(w) THEN [session |-> prev, finish |-> TRUE]
     ELSE [session |-> [prev EXCEPT !.currentStepIndex = nextIndex,
                                    !.currentSet = 1,
                                    !.remainingSec = OrElse(StepAt(w, nextIndex).durationSec, 0)],
           finish |-> FALSE]

\* The timer as the refs and the window hold it: ref tells that tickRef.current
\* holds an interval id, n counts the registered intervals, last is
\* lastTickRef.current.
\* lines 465-468, faulty variant: the interval is forgotten, not cleared
stopTimer_Leak(tm) == [tm EXCEPT !.ref = FALSE]

\* lines 465-468: stopTimer
stopTimer(tm) == [tm EXCEPT !.ref = FALSE, !.n = IF tm.ref THEN tm.n - 1 ELSE tm.n]

\* lines 470-473, faulty variant: lastTickRef keeps its old stamp
ensureTimer_StaleStamp(tm) == IF tm.ref THEN tm ELSE [tm EXCEPT !.ref = TRUE, !.n = tm.n + 1]

\* lines 470-473, 496: ensureTimer, up to the registration of the interval
ensureTimer(tm) ==
  IF tm.ref THEN tm ELSE [ref |-> TRUE, n |-> tm.n + 1, last |-> wkNow]

\* lines 499-504: the timer effect, run after a render in which session?.paused
\* or session?.activeWorkoutId changed: cleanup (stopTimer), then ensureTimer or
\* stopTimer; last is lastTickRef.current as the render left it
TimerEffect(old, new, last) ==
  LET tm == [ref |-> tickRef, n |-> wkIntervals, last |-> last]
      after == IF old.paused = new.paused /\ old.activeWorkoutId = new.activeWorkoutId
                  /\ (old = NoSession) = (new = NoSession)
               THEN tm
               ELSE IF new # NoSession /\ ~new.paused
                    THEN ensureTimer(stopTimer(tm))
                    ELSE stopTimer(stopTimer(tm))
  IN /\ tickRef' = after.ref
     /\ wkIntervals' = after.n
     /\ lastTickRef' = after.last

\* line 481: whole seconds since the last counted tick
deltaSec(last) == LET d == (wkNow - last) \div UnitsPerSec IN IF d < 0 THEN 0 ELSE d

\* line 488
IsTimed(step) == step.durationSec # -1

\* line 492, faulty variant: zero still counts as running
StillCounting_OffByOne(nextRemain) == nextRemain >= 0

\* line 492: if (nextRemain > 0)
StillCounting(nextRemain) == nextRemain > 0

\* lines 474-495: the updater the interval callback hands to setSession, run on
\* the state prev with lastTickRef.current = last; finish tells that
\* finishSession was called, last is lastTickRef.current afterwards
tickUpdater(prev, last) ==
  IF prev = NoSession \/ prev.paused \/ deltaSec(last) <= 0
  THEN [session |-> prev, finish |-> FALSE, last |-> last]
  ELSE LET step == StepAt(prev.activeWorkoutId, prev.currentStepIndex)
           nextRemain == prev.remainingSec - deltaSec(last)
       IN IF step = NoStep \/ ~IsTimed(step)
          THEN [session |-> prev, finish |-> FALSE, last |-> wkNow]
          ELSE IF StillCounting(nextRemain)
          THEN [session |-> [prev EXCEPT !.remainingSec = nextRemain],
                finish |-> FALSE, last |-> wkNow]
          ELSE LET r == advanceStep(prev, TRUE) IN
               [session |-> r.session, finish |-> r.finish, last |-> wkNow]

\* The updater of a tick that was dispatched and not yet rendered is the first
\* of the session queue; React runs the queued updaters in order in the next
\* render, each on the state the one before it returned.
QueuedTick ==
  IF wkTickQueued THEN tickUpdater(wkSession, lastTickRef)
  ELSE [session |-> wkSession, finish |-> FALSE, last |-> lastTickRef]

\* One render of the session queue: t is the outcome of the queued tick, r the
\* outcome of the handler's own update on t.session, h the history as the
\* handler's own setPersisted left it.  Every finishSession call (lines 562-576)
\* made by an updater pushes its record and queues setSession(null), which is
\* applied after the updaters of this render.
Render(t, r, h) ==
  LET new == IF t.finish \/ r.finish THEN NoSession ELSE r.session
      h1 == IF t.finish THEN PushHistory(h, Completed(wkSession)) ELSE h
      h2 == IF r.finish THEN PushHistory(h1, Completed(t.session)) ELSE h1
  IN /\ wkSession' = new
     /\ wkHistory' = h2
     /\ TimerEffect(wkSession, new, t.last)
     /\ wkTickQueued' = FALSE

\* An update that sets the value s, or keeps what the updater returned.
Plain(s) == [session |-> s, finish |-> FALSE]

NoPause == [at |-> -1, back |-> -1]

Track(ev) ==
  /\ wkEvent' = ev
  /\ wkPrevIdx' = IF wkSession = NoSession THEN -1 ELSE wkSession.currentStepIndex
  /\ wkPauseLog' = IF ev = "setPaused"
                    THEN IF wkSession.paused THEN [wkPauseLog EXCEPT !.back = wkNow]
                         ELSE [at |-> wkNow, back |-> -1]
                    ELSE IF ev = "tick" THEN wkPauseLog
                    ELSE NoPause
  /\ wkCountFrom' =
       IF wkSession' = NoSession \/ wkSession'.paused
          \/ ~IsTimed(StepAt(wkSession'.activeWorkoutId, wkSession'.currentStepIndex))
       THEN -1
       ELSE IF ev = "tick" /\ wkSession # NoSession
               /\ wkSession'.currentStepIndex = wkSession.currentStepIndex
            THEN wkCountFrom
       ELSE IF ev \in {"startWorkout", "tick", "prevStep", "nextStep", "completeSet"}
            THEN wkNow
       ELSE -1

\* lines 438-459: startWorkout
StartWorkout(w) ==
  /\ wkMounted
  /\ wkStarts < MaxStarts
  /\ LET first == StepAt(w, 0)
         s == [activeWorkoutId |-> w, startedAt |-> wkNow, paused |-> FALSE,
               currentStepIndex |-> 0, currentSet |-> 1,
               remainingSec |-> OrElse(first.durationSec, OrElse(first.restSec, 0))]
     IN Render(QueuedTick, Plain(s), wkHistory)
  /\ wkStarts' = wkStarts + 1
  /\ Track("startWorkout")
  /\ wkSetsDone' = 0
  /\ UNCHANGED <<wkPlan, wkNow, wkMounted>>
  /\ UNCHANGED notWorkout

\* lines 461-463, 1056: setPaused(!session.paused), from the Pause / Resume buttons
TogglePause ==
  /\ wkMounted
  /\ wkSession # NoSession
  /\ LET t == QueuedTick
         s == IF t.session = NoSession THEN t.session
              ELSE [t.session EXCEPT !.paused = ~wkSession.paused]
     IN /\ Render(t, Plain(s), wkHistory)
        /\ wkSetsDone' = IF t.finish \/ s.currentStepIndex # wkSession.currentStepIndex
                         THEN 0 ELSE wkSetsDone
  /\ Track("setPaused")
  /\ UNCHANGED <<wkPlan, wkNow, wkStarts, wkMounted>>
  /\ UNCHANGED notWorkout

\* lines 473-496: the interval callback dispatches its updater
TickFires ==
  /\ wkIntervals > 0
  /\ ~wkTickQueued
  /\ wkTickQueued' = TRUE
  /\ UNCHANGED <<wkSession, wkHistory, wkPlan, tickRef, lastTickRef, wkNow, wkStarts,
                 wkEvent, wkPrevIdx, wkSetsDone, wkIntervals, wkMounted, wkPauseLog,
                 wkCountFrom>>
  /\ UNCHANGED notWorkout

\* lines 474-495: React renders the dispatched tick
Tick ==
  /\ wkTickQueued
  /\ LET t == QueuedTick IN
        /\ Render(t, Plain(t.session), wkHistory)
        /\ wkSetsDone' = IF t.finish \/ t.session = NoSession
                            \/ t.session.currentStepIndex # wkSession.currentStepIndex
                         THEN 0 ELSE wkSetsDone
  /\ Track("tick")
  /\ UNCHANGED <<wkPlan, wkNow, wkStarts, wkMounted>>
  /\ UNCHANGED notWorkout

\* lines 528-537: the updater of prevStep
prevStepUpdater(prev) ==
  IF prev = NoSession THEN prev
  ELSE LET w == prev.activeWorkoutId
           nextIndex == clamp(prev.currentStepIndex - 1, 0, StepCount(w) - 1)
       IN [prev EXCEPT !.currentStepIndex = nextIndex,
                       !.currentSet = 1,
                       !.remainingSec = OrElse(StepAt(w, nextIndex).durationSec, 0)]

\* lines 528-537: prevStep
PrevStep ==
  /\ wkMounted
  /\ wkSession # NoSession
  /\ LET t == QueuedTick IN Render(t, Plain(prevStepUpdater(t.session)), wkHistory)
  /\ Track("prevStep")
  /\ wkSetsDone' = 0
  /\ UNCHANGED <<wkPlan, wkNow, wkStarts, wkMounted>>
  /\ UNCHANGED notWorkout

\* lines 539-546: nextStep
NextStep ==
  /\ wkMounted
  /\ wkSession # NoSession
  /\ LET t == QueuedTick IN Render(t, advanceStep(t.session, FALSE), wkHistory)
  /\ Track("nextStep")
  /\ wkSetsDone' = 0
  /\ UNCHANGED <<wkPlan, wkNow, wkStarts, wkMounted>>
  /\ UNCHANGED notWorkout

\* line 557, faulty variant: the set counter is not consulted
SetsRemain_Never(prev, step) == FALSE

\* line 557: if (prev.currentSet < step.sets)
SetsRemain(prev, step) == prev.currentSet < step.sets

\* lines 548-560: completeSet; the button is rendered on strength steps (line
\* 1065), where a queued tick changes nothing but lastTickRef
CompleteSet ==
  /\ wkMounted
  /\ wkSession # NoSession
  /\ StepAt(wkSession.activeWorkoutId, wkSession.currentStepIndex).sets > 0
  /\ LET t == QueuedTick
         step == StepAt(t.session.activeWorkoutId, t.session.currentStepIndex)
     IN IF SetsRemain(t.session, step)
        THEN /\ Render(t, Plain([t.session EXCEPT !.currentSet = @ + 1]), wkHistory)
             /\ wkSetsDone' = wkSetsDone + 1
        ELSE /\ Render(t, advanceStep(t.session, FALSE), wkHistory)
             /\ wkSetsDone' = 0
  /\ Track("completeSet")
  /\ UNCHANGED <<wkPlan, wkNow, wkStarts, wkMounted>>
  /\ UNCHANGED notWorkout

\* lines 1094-1109: the Finish button, on the session of the last render
FinishButton ==
  /\ wkMounted
  /\ wkSession # NoSession
  /\ Render(QueuedTick, Plain(NoSession), PushHistory(wkHistory, Completed(wkSession)))
  /\ Track("finish")
  /\ wkSetsDone' = 0
  /\ UNCHANGED <<wkPlan, wkNow, wkStarts, wkMounted>>
  /\ UNCHANGED notWorkout

\* faulty variant: abandoning records the session like Finish does
AbandonSession_Records ==
  /\ wkMounted
  /\ wkSession # NoSession
  /\ Render(QueuedTick, Plain(NoSession), PushHistory(wkHistory, Completed(wkSession)))
  /\ Track("abandon")
  /\ wkSetsDone' = 0
  /\ UNCHANGED <<wkPlan, wkNow, wkStarts, wkMounted>>
  /\ UNCHANGED notWorkout

\* lines 578-580: abandonSession (End, x and Exit are rendered with a session)
AbandonSession ==
  /\ wkMounted
  /\ wkSession # NoSession
  /\ Render(QueuedTick, Plain(NoSession), wkHistory)
  /\ Track("abandon")
  /\ wkSetsDone' = 0
  /\ UNCHANGED <<wkPlan, wkNow, wkStarts, wkMounted>>
  /\ UNCHANGED notWorkout

\* lines 419-436: generateWeeklyPlan and clearPlan (disabled without a plan)
ToggleWeeklyPlan ==
  /\ wkMounted
  /\ wkPlan' = ~wkPlan
  /\ UNCHANGED <<wkSession, wkHistory, tickRef, lastTickRef, wkNow, wkStarts, wkSetsDone,
                 wkTickQueued, wkIntervals, wkMounted>>
  /\ Track(IF wkPlan THEN "clearPlan" ELSE "generateWeeklyPlan")
  /\ UNCHANGED notWorkout

\* Date.now() moves on by one clock unit; the clock is followed while a session
\* runs, and a dispatched update is rendered before the clock moves on.
AdvanceClock ==
  /\ wkSession # NoSession
  /\ ~wkTickQueued
  /\ wkNow < MaxTime
  /\ wkNow' = wkNow + 1
  /\ UNCHANGED <<wkSession, wkHistory, wkPlan, tickRef, lastTickRef, wkStarts, wkEvent,
                 wkPrevIdx, wkSetsDone, wkTickQueued, wkIntervals, wkMounted, wkPauseLog,
                 wkCountFrom>>
  /\ UNCHANGED notWorkout

\* part_000 line 260, lines 499-504: another tab is selected and WorkoutsTab
\* unmounts; the cleanup of the timer effect runs stopTimer, the updates still
\* queued are dropped, and the session stays in localStorage (lines 368-371)
Unmount ==
  /\ wkMounted
  /\ wkMounted' = FALSE
  /\ LET after == stopTimer([ref |-> tickRef, n |-> wkIntervals, last |-> lastTickRef]) IN
        /\ tickRef' = after.ref
        /\ wkIntervals' = after.n
        /\ lastTickRef' = after.last
  /\ wkTickQueued' = FALSE
  /\ UNCHANGED <<wkSession, wkHistory, wkPlan, wkNow, wkStarts, wkSetsDone>>
  /\ Track("unmount")
  /\ UNCHANGED notWorkout

\* part_000 line 260, lines 348, 363-365, 499-504: the workouts tab is selected
\* again; the session comes from localStorage (loadPersisted, lines 120-133),
\* the refs are fresh (tickRef null, lastTickRef Date.now()) and the timer effect runs
Mount ==
  /\ ~wkMounted
  /\ wkMounted' = TRUE
  /\ LET fresh == [ref |-> FALSE, n |-> wkIntervals, last |-> wkNow]
         after == IF wkSession # NoSession /\ ~wkSession.paused
                  THEN ensureTimer(fresh) ELSE stopTimer(fresh)
     IN /\ tickRef' = after.ref
        /\ wkIntervals' = after.n
        /\ lastTickRef' = after.last
  /\ UNCHANGED <<wkSession, wkHistory, wkPlan, wkNow, wkStarts, wkTickQueued, wkSetsDone>>
  /\ Track("mount")
  /\ UNCHANGED notWorkout

\* A history that earlier visits left one short of the cap.
OldHistory == [i \in 1..(HistoryCap - 1) |-> [workoutId |-> "timed", totalSeconds |-> 1]]

\* lines 348, 363-365: on mount no session is stored and no interval runs; the
\* stored history is empty (a first visit) or one short of the cap
InitWorkout ==
  /\ wkSession = NoSession
  /\ wkHistory \in {<<>>, OldHistory}
  /\ wkPlan = FALSE
  /\ tickRef = FALSE
  /\ lastTickRef = 0
  /\ wkNow = 0
  /\ wkStarts = 0
  /\ wkEvent = "init"
  /\ wkPrevIdx = -1
  /\ wkSetsDone = 0
  /\ wkTickQueued = FALSE
  /\ wkIntervals = 0
  /\ wkMounted = TRUE
  /\ wkPauseLog = NoPause
  /\ wkCountFrom = -1

\* The workout tab of a first visit, as the other specifications hold it.
IdleWorkout ==
  /\ wkSession = NoSession
  /\ wkHistory = <<>>
  /\ wkPlan = FALSE
  /\ tickRef = FALSE
  /\ lastTickRef = 0
  /\ wkNow = 0
  /\ wkStarts = 0
  /\ wkEvent = "init"
  /\ wkPrevIdx = -1
  /\ wkSetsDone = 0
  /\ wkTickQueued = FALSE
  /\ wkIntervals = 0
  /\ wkMounted = TRUE
  /\ wkPauseLog = NoPause
  /\ wkCountFrom = -1

NextWorkout ==
  \/ \E w \in WorkoutIds : StartWorkout(w)
  \/ TogglePause
  \/ TickFires
  \/ Tick
  \/ PrevStep
  \/ NextStep
  \/ CompleteSet
  \/ FinishButton
  \/ AbandonSession
  \/ ToggleWeeklyPlan
  \/ AdvanceClock
  \/ Unmount
  \/ Mount

(***************************************************************************)
(* VoiceTab                                                                *)
(***************************************************************************)
MaxTurns == 2    \* startListening calls a behaviour may make

VoiceIds == 1..MaxTurns

\* what one startListening call has created: its position, the MediaStream and
\* AudioContext of its level meter, its recognizer and handlers, the transcript its
\* closure captured, its processText call, its request and its utterance
NoTurn == [pc |-> "unused", stream |-> "none", ctx |-> "none", rec |-> "none",
           handlers |-> FALSE, captured |-> FALSE, proc |-> "none", req |-> "none",
           utter |-> "none"]

\* lines 494-511: the state and refs of VoiceTab, as one record
Cur == [voiceState |-> voiceState, error |-> voiceError, transcript |-> transcript,
        response |-> response, audioLevel |-> audioLevel,
        recognitionRef |-> recognitionRef, isListeningRef |-> isListeningRef,
        finalTextRef |-> finalTextRef, apiAbortRef |-> apiAbortRef,
        streamRef |-> streamRef, audioCtxRef |-> audioCtxRef, rafRef |-> rafRef,
        turns |-> vTurns, frames |-> vFrames]

Commit(v) ==
  /\ voiceState' = v.voiceState
  /\ voiceError' = v.error
  /\ transcript' = v.transcript
  /\ response' = v.response
  /\ audioLevel' = v.audioLevel
  /\ recognitionRef' = v.recognitionRef
  /\ isListeningRef' = v.isListeningRef
  /\ finalTextRef' = v.finalTextRef
  /\ apiAbortRef' = v.apiAbortRef
  /\ streamRef' = v.streamRef
  /\ audioCtxRef' = v.audioCtxRef
  /\ rafRef' = v.rafRef
  /\ vTurns' = v.turns
  /\ vFrames' = v.frames

\* lines 513-529: stopLevelMeter
stopLevelMeter(v) ==
  [v EXCEPT
     !.frames = v.frames \ {v.rafRef},
     !.rafRef = 0,
     !.turns = [c \in VoiceIds |->
        [v.turns[c] EXCEPT
           !.ctx = IF c = v.audioCtxRef /\ @ = "open" THEN "closed" ELSE @,
           !.stream = IF c = v.streamRef /\ @ = "live" THEN "stopped" ELSE @]],
     !.audioCtxRef = 0,
     !.streamRef = 0,
     !.audioLevel = 0]

\* a faulty variant: the controller in apiAbortRef is left alone
abortController_Skip(v) == v

\* lines 592, 618: apiAbortRef.current?.abort()
abortController(v) ==
  [v EXCEPT !.turns = [c \in VoiceIds |->
     IF c = v.apiAbortRef /\ v.turns[c].req = "inflight"
     THEN [v.turns[c] EXCEPT !.req = "aborted"] ELSE v.turns[c]]]

\* lines 566-596: stopAll
stopAll(v) ==
  LET v1 == [v EXCEPT
               !.turns = [c \in VoiceIds |->
                  IF c # v.recognitionRef THEN v.turns[c]
                  ELSE [v.turns[c] EXCEPT
                          !.handlers = FALSE,
                          !.rec = IF @ = "started" THEN "stopping" ELSE @]],
               !.recognitionRef = 0,
               !.isListeningRef = FALSE]
      v2 == stopLevelMeter(v1)
      \* line 587: speechSynthesis.cancel() drops every utterance
      v3 == [v2 EXCEPT !.turns = [c \in VoiceIds |->
               [v2.turns[c] EXCEPT !.utter = IF @ = "speaking" THEN "cancelled" ELSE @]]]
      v4 == abortController(v3)
  IN [v4 EXCEPT !.voiceState = "idle"]

\* lines 627, 648-652: the fetch of an aborted request rejects at once; the catch
\* and finally of its processText run as microtasks, after the handler that aborted
Microtasks(v) ==
  LET hit == {c \in VoiceIds : v.turns[c].req = "aborted" /\ v.turns[c].proc = "awaitAPI"} IN
  IF hit = {} THEN v
  ELSE [v EXCEPT !.turns = [c \in VoiceIds |->
                    IF c \in hit THEN [v.turns[c] EXCEPT !.proc = "done"] ELSE v.turns[c]],
                 !.error = "api",
                 !.voiceState = "idle"]

\* lines 617-629: askAPI up to the fetch, for the turn c
askAPI(v, c) ==
  LET v1 == abortController(v) IN
  [v1 EXCEPT !.apiAbortRef = c,
             !.turns = [v1.turns EXCEPT ![c].req = "inflight", ![c].proc = "awaitAPI"]]

\* lines 631-655: processText up to its first await; text is "" or some words
processText(v, c, text) ==
  LET v1 == [v EXCEPT !.transcript = text, !.response = ""] IN
  IF text = ""
  THEN [v1 EXCEPT !.response = "retry", !.voiceState = "idle",
                  !.turns = [v1.turns EXCEPT ![c].proc = "done"]]
  ELSE askAPI([v1 EXCEPT !.voiceState = "processing"], c)

FreeTurn == CHOOSE c \in VoiceIds :
              vTurns[c].pc = "unused" /\ \A d \in VoiceIds : d < c => vTurns[d].pc # "unused"

\* lines 657-673: startListening up to the getUserMedia of startLevelMeter (line
\* 534); the button is rendered while voiceState is idle (line 766)
StartListening ==
  /\ voiceState = "idle"
  /\ \E c \in VoiceIds : vTurns[c].pc = "unused"
  /\ LET c == FreeTurn
         v0 == [Cur EXCEPT !.error = "", !.transcript = "", !.response = "",
                           !.finalTextRef = FALSE]
     IN IF ~vHasSpeech
        THEN Commit([v0 EXCEPT !.error = "nospeech"])
        ELSE LET v1 == stopLevelMeter(stopAll(v0))     \* lines 669, 532
                 v2 == [v1 EXCEPT !.turns = [v1.turns EXCEPT
                           ![c].pc = "awaitMic",
                           \* line 721: the transcript of the render the callback is from
                           ![c].captured = transcript # ""]]
             IN Commit(Microtasks(v2))
  /\ voiceEvent' = <<"startListening", FreeTurn>>
  /\ UNCHANGED vHasSpeech
  /\ UNCHANGED notVoice

\* lines 534-563, 680-732: getUserMedia resolves for the call c; the rest of
\* startLevelMeter and of startListening run; r.start() returns or throws
MicGranted(c, startOk) ==
  /\ vTurns[c].pc = "awaitMic"
  /\ LET v1 == [Cur EXCEPT
                  !.streamRef = c, !.audioCtxRef = c, !.rafRef = c,
                  !.frames = vFrames \cup {c},
                  !.recognitionRef = c,
                  !.isListeningRef = TRUE,
                  !.voiceState = "listening",
                  !.turns = [vTurns EXCEPT
                     ![c].stream = "live", ![c].ctx = "open", ![c].pc = "started",
                     ![c].handlers = TRUE,
                     ![c].rec = IF startOk THEN "started" ELSE "failed"]]
     IN IF startOk THEN Commit(v1)
        ELSE LET v2 == stopLevelMeter([v1 EXCEPT !.isListeningRef = FALSE]) IN
             Commit([v2 EXCEPT !.voiceState = "idle", !.error = "start"])
  /\ voiceEvent' = <<"micGranted", c>>
  /\ UNCHANGED vHasSpeech
  /\ UNCHANGED notVoice

\* lines 672-678: getUserMedia rejects for the call c
MicDenied(c) ==
  /\ vTurns[c].pc = "awaitMic"
  /\ LET v1 == stopAll([Cur EXCEPT !.error = "mic"]) IN
     Commit(Microtasks([v1 EXCEPT !.turns = [v1.turns EXCEPT ![c].pc = "denied"]]))
  /\ voiceEvent' = <<"micDenied", c>>
  /\ UNCHANGED vHasSpeech
  /\ UNCHANGED notVoice

\* lines 548-561: an animation frame requested by the tick of the call c runs
AnimationFrame(c, level) ==
  /\ c \in vFrames
  /\ IF ~isListeningRef
     THEN Commit([Cur EXCEPT !.frames = vFrames \ {c}])
     ELSE Commit([Cur EXCEPT !.audioLevel = level, !.rafRef = c])
  /\ voiceEvent' = <<"frame", c>>
  /\ UNCHANGED vHasSpeech
  /\ UNCHANGED notVoice

\* lines 691-704: r.onresult, with or without a final result
RecognizerResult(c, final) ==
  /\ vTurns[c].rec = "started" /\ vTurns[c].handlers
  /\ Commit([Cur EXCEPT !.finalTextRef = finalTextRef \/ final, !.transcript = "words"])
  /\ voiceEvent' = <<"result", c>>
  /\ UNCHANGED vHasSpeech
  /\ UNCHANGED notVoice

\* lines 706-711: the recognizer of the call c reports an error; its end event follows
RecognizerError(c) ==
  /\ vTurns[c].rec = "started"
  /\ LET v1 == [Cur EXCEPT !.turns = [vTurns EXCEPT ![c].rec = "stopping"]] IN
     IF ~vTurns[c].handlers THEN Commit(v1)
     ELSE LET v2 == stopLevelMeter([v1 EXCEPT !.isListeningRef = FALSE]) IN
          Commit([v2 EXCEPT !.voiceState = "idle", !.error = "stt"])
  /\ voiceEvent' = <<"recError", c>>
  /\ UNCHANGED vHasSpeech
  /\ UNCHANGED notVoice

\* lines 713-723: the recognizer of the call c ends
RecognizerEnd(c) ==
  /\ vTurns[c].rec \in {"started", "stopping"}
  /\ LET v1 == [Cur EXCEPT !.turns = [vTurns EXCEPT ![c].rec = "ended"]] IN
     IF ~vTurns[c].handlers \/ ~isListeningRef THEN Commit(v1)
     ELSE LET v2 == stopLevelMeter([v1 EXCEPT !.isListeningRef = FALSE])
              text == IF finalTextRef \/ vTurns[c].captured THEN "words" ELSE ""
          IN Commit(Microtasks(processText(v2, c, text)))
  /\ voiceEvent' = <<"recEnd", c>>
  /\ UNCHANGED vHasSpeech
  /\ UNCHANGED notVoice

\* lines 627-628, 646-647, 602-615: generateCoachReply resolves for the turn c with
\* a text or without one; the reply is shown and spoken
ApiResolves(c, text) ==
  /\ vTurns[c].proc = "awaitAPI" /\ vTurns[c].req = "inflight"
  /\ Commit([Cur EXCEPT
       !.response = IF text = "" THEN "fallback" ELSE text,
       !.voiceState = "speaking",
       !.turns = [d \in VoiceIds |->
          IF d = c THEN [vTurns[d] EXCEPT !.req = "done", !.proc = "awaitSpeak",
                                          !.utter = "speaking"]
          ELSE [vTurns[d] EXCEPT !.utter = IF @ = "speaking" THEN "cancelled" ELSE @]]])
  /\ voiceEvent' = <<"reply", c>>
  /\ UNCHANGED vHasSpeech
  /\ UNCHANGED notVoice

\* lines 627, 648-652: generateCoachReply rejects for the turn c (network, status, body)
ApiRejects(c) ==
  /\ vTurns[c].proc = "awaitAPI" /\ vTurns[c].req = "inflight"
  /\ Commit([Cur EXCEPT
       !.error = "api",
       !.voiceState = "idle",
       !.turns = [vTurns EXCEPT ![c].req = "done", ![c].proc = "done"]])
  /\ voiceEvent' = <<"apiError", c>>
  /\ UNCHANGED vHasSpeech
  /\ UNCHANGED notVoice

\* lines 610-611, 650-652: the utterance of the turn c ends or is reported cancelled
SpeechEnds(c) ==
  /\ vTurns[c].utter \in {"speaking", "cancelled"}
  /\ Commit([Cur EXCEPT
       !.voiceState = "idle",
       !.turns = [vTurns EXCEPT ![c].utter = "ended", ![c].proc = "done"]])
  /\ voiceEvent' = <<"speechEnd", c>>
  /\ UNCHANGED vHasSpeech
  /\ UNCHANGED notVoice

\* line 771: Stop, rendered while voiceState is not idle
StopClick ==
  /\ voiceState # "idle"
  /\ Commit(Microtasks(stopAll(Cur)))
  /\ voiceEvent' = <<"stop", 0>>
  /\ UNCHANGED vHasSpeech
  /\ UNCHANGED notVoice

\* lines 494-511
IdleVoice ==
  /\ voiceState = "idle"
  /\ voiceError = ""
  /\ transcript = ""
  /\ response = ""
  /\ audioLevel = 0
  /\ recognitionRef = 0
  /\ isListeningRef = FALSE
  /\ finalTextRef = FALSE
  /\ apiAbortRef = 0
  /\ streamRef = 0
  /\ audioCtxRef = 0
  /\ rafRef = 0
  /\ vTurns = [c \in VoiceIds |-> NoTurn]
  /\ vFrames = {}
  /\ vHasSpeech = TRUE
  /\ voiceEvent = <<"init", 0>>

InitVoice ==
  /\ voiceState = "idle"
  /\ voiceError = ""
  /\ transcript = ""
  /\ response = ""
  /\ audioLevel = 0
  /\ recognitionRef = 0
  /\ isListeningRef = FALSE
  /\ finalTextRef = FALSE
  /\ apiAbortRef = 0
  /\ streamRef = 0
  /\ audioCtxRef = 0
  /\ rafRef = 0
  /\ vTurns = [c \in VoiceIds |-> NoTurn]
  /\ vFrames = {}
  /\ vHasSpeech \in BOOLEAN
  /\ voiceEvent = <<"init", 0>>

NextVoice ==
  \/ StartListening
  \/ \E c \in VoiceIds, startOk \in BOOLEAN : MicGranted(c, startOk)
  \/ \E c \in VoiceIds : MicDenied(c)
  \/ \E c \in VoiceIds, level \in {0, 1} : AnimationFrame(c, level)
  \/ \E c \in VoiceIds, final \in BOOLEAN : RecognizerResult(c, final)
  \/ \E c \in VoiceIds : RecognizerError(c)
  \/ \E c \in VoiceIds : RecognizerEnd(c)
  \/ \E c \in VoiceIds, text \in {"", "reply"} : ApiResolves(c, text)
  \/ \E c \in VoiceIds : ApiRejects(c)
  \/ \E c \in VoiceIds : SpeechEnds(c)
  \/ StopClick

----------------------------------------------------------------------------
(***************************************************************************)
(* PostureTab: makeFeedback                                                *)
(***************************************************************************)
PoGrid == 50     \* grid units per 1.0 of a normalized landmark coordinate

Exercises == {"standing", "squat", "pushup", "plank"}

\* the landmarks makeFeedback reads (lines 326-337)
LmIdx == {11, 12, 13, 14, 15, 16, 23, 24, 25, 26, 27, 28}

Point(x, y, v) == [x |-> x, y |-> y, v |-> v]

\* line 116: visibility ?? 1, in hundredths; -1 stands for a missing visibility
OrOne(v) == IF v = -1 THEN 100 ELSE v

\* lines 113-119: pickSide
pickSide(lm, idxL, idxR) ==
  IF OrOne(lm[idxR].v) > OrOne(lm[idxL].v) THEN lm[idxR] ELSE lm[idxL]

\* lines 68-72: dot and (magAB * magCB)^2 of angleABC
Dot(a, b, c) == (a.x - b.x) * (c.x - b.x) + (a.y - b.y) * (c.y - b.y)
Mag2(a, b) == (a.x - b.x) * (a.x - b.x) + (a.y - b.y) * (a.y - b.y)

\* cos^2 of the angles makeFeedback compares with, in thousandths
CosSq(deg) ==
  CASE deg = 55 -> 329
    [] deg = 135 -> 500
    [] deg = 140 -> 587
    [] deg = 150 -> 750
    [] deg = 155 -> 821
    [] deg = 160 -> 883
    [] deg = 165 -> 933

\* lines 67-76: angleABC(a, b, c) < deg, by comparing cosines; with a zero
\* magnitude the cosine is 0
AngleBelow(a, b, c, deg) ==
  LET d == Dot(a, b, c)
      m == Mag2(a, b) * Mag2(c, b)
  IN IF deg < 90 THEN d > 0 /\ 1000 * d * d > CosSq(deg) * m
     ELSE d >= 0 \/ 1000 * d * d < CosSq(deg) * m

\* lines 67-76: angleABC(a, b, c) > deg
AngleAbove(a, b, c, deg) ==
  LET d == Dot(a, b, c)
      m == Mag2(a, b) * Mag2(c, b)
  IN IF deg < 90 THEN d <= 0 \/ 1000 * d * d < CosSq(deg) * m
     ELSE d < 0 /\ 1000 * d * d > CosSq(deg) * m

Abs(n) == IF n < 0 THEN -n ELSE n

\* line 318: !lm || lm.length < 33; n = -1 stands for a result without landmarks[0]
TooFewLandmarks(n) == n < 33

\* a faulty variant: low visibility is never reported
LowVisibility_Never(lm) == FALSE

\* lines 339-340: visAvg < 0.4
LowVisibility(lm) ==
  10 * (OrOne(lm[11].v) + OrOne(lm[12].v) + OrOne(lm[23].v) + OrOne(lm[24].v)) < 4 * 4 * 100

\* a faulty variant: any tilt counts
Tilted_Any(d) == d > 0

\* lines 387-388: a tilt above 0.03
Tilted(d) == 100 * d > 3 * PoGrid

\* a faulty variant: two tips are already bad
StatusOf_TwoIsBad(tips) ==
  IF Cardinality(tips) = 0 THEN "correct"
  ELSE IF Cardinality(tips) <= 1 THEN "warning" ELSE "bad"

\* lines 393, 413, 434, 453: the status for a list of tips
StatusOf(tips) ==
  IF Cardinality(tips) = 0 THEN "correct"
  ELSE IF Cardinality(tips) <= 2 THEN "warning" ELSE "bad"

NoPerson == [status |-> "no_person", tips |-> {}, numeric |-> FALSE]

\* lines 316-464: makeFeedback; pose.n is the length of the landmark list
makeFeedback(ex, pose) ==
  IF TooFewLandmarks(pose.n) THEN NoPerson
  ELSE
  LET lm == pose.lm IN
  IF LowVisibility(lm) THEN NoPerson
  ELSE
  LET shoulderTilt == Abs(lm[11].y - lm[12].y)
      hipTilt == Abs(lm[23].y - lm[24].y)
      knee == pickSide(lm, 25, 26)
      ankle == pickSide(lm, 27, 28)
      hip == pickSide(lm, 23, 24)
      shoulder == pickSide(lm, 11, 12)
      elbow == pickSide(lm, 13, 14)
      wrist == pickSide(lm, 15, 16)
      \* lines 432, 451: shoulderToHip < 0.10
      nearHip == 100 * Mag2(shoulder, hip) < PoGrid * PoGrid
      tilt == (IF Tilted(shoulderTilt) THEN {"shoulders"} ELSE {})
                \cup (IF Tilted(hipTilt) THEN {"hips"} ELSE {})
      tips ==
        CASE ex = "standing" ->
               tilt \cup (IF AngleBelow(shoulder, hip, knee, 155) THEN {"taller"} ELSE {})
          [] ex = "squat" ->
               tilt \cup (IF AngleAbove(hip, knee, ankle, 140) THEN {"lower"} ELSE {})
                    \cup (IF AngleBelow(hip, knee, ankle, 55) THEN {"deep"} ELSE {})
                    \cup (IF AngleBelow(shoulder, hip, knee, 135) THEN {"chest"} ELSE {})
                    \cup (IF 100 * Abs(knee.x - ankle.x) > 8 * PoGrid THEN {"stacked"} ELSE {})
          [] ex = "pushup" ->
               tilt \cup (IF AngleBelow(shoulder, hip, ankle, 160) THEN {"straight"} ELSE {})
                    \cup (IF AngleAbove(shoulder, elbow, wrist, 165) THEN {"lower"} ELSE {})
                    \cup (IF AngleBelow(shoulder, elbow, wrist, 55) THEN {"low"} ELSE {})
                    \cup (IF nearHip THEN {"back"} ELSE {})
          [] ex = "plank" ->
               tilt \cup (IF AngleBelow(shoulder, hip, ankle, 165) THEN {"line"} ELSE {})
                    \cup (IF AngleBelow(shoulder, hip, knee, 150) THEN {"neck"} ELSE {})
                    \cup (IF nearHip THEN {"back"} ELSE {})
  IN [status |-> StatusOf(tips), tips |-> tips, numeric |-> TRUE]

\* A pose on the grid. vis = <<vLs, vRs, vLh, vRh>> are the visibilities of the
\* shoulders and hips; the other left and right landmarks have those of the
\* shoulders. sTilt and hTilt lower the right shoulder and hip, lean moves the
\* shoulders forward, kneeFwd the knees, arm bends the elbows.
Pose(n, vis, sTilt, hTilt, lean, kneeFwd, arm) ==
  [n |-> n,
   lm |-> [i \in LmIdx |->
      CASE i = 11 -> Point(25 + lean, 10, vis[1])
        [] i = 12 -> Point(25 + lean, 10 + sTilt, vis[2])
        [] i = 13 -> Point(25 + lean, 18, vis[1])
        [] i = 14 -> Point(25 + lean, 18, vis[2])
        [] i = 15 -> Point(25 + lean + arm, 26 - arm, vis[1])
        [] i = 16 -> Point(25 + lean + arm, 26 - arm, vis[2])
        [] i = 23 -> Point(25, 25, vis[3])
        [] i = 24 -> Point(25, 25 + hTilt, vis[4])
        [] i = 25 -> Point(25 + kneeFwd, 37, vis[1])
        [] i = 26 -> Point(25 + kneeFwd, 37, vis[2])
        [] i = 27 -> Point(25, 49, vis[1])
        [] i = 28 -> Point(25, 49, vis[2])]]

Visibilities == {<<-1, -1, -1, -1>>, <<100, 100, 100, 100>>, <<100, 90, 90, 100>>,
                 <<40, 40, 40, 40>>, <<39, 40, 40, 40>>, <<-1, 0, 0, 0>>,
                 <<0, 20, -1, 30>>}

\* results of detectForVideo: no pose, a short landmark list, a full one
Poses ==
  {Pose(n, vis, sTilt, hTilt, lean, kneeFwd, arm) :
     n \in {-1, 32, 33}, vis \in Visibilities, sTilt \in {0, 1, 2}, hTilt \in {0, 1, 2},
     lean \in {0, 5, 8}, kneeFwd \in {0, 9}, arm \in {0, 8}}

\* the poses a camera session is fed with
FramePoses ==
  {Pose(-1, <<-1, -1, -1, -1>>, 0, 0, 0, 0, 0)}
    \cup {Pose(33, <<100, 100, 100, 100>>, tilt, tilt, lean, kneeFwd, 0) :
             tilt \in {0, 2}, lean \in {0, 8}, kneeFwd \in {0, 9}}

NoFeedback == [status |-> "none", tips |-> {}, numeric |-> FALSE]

\* line 498: makeFeedback(exercise, res) for the result drawn
Classify ==
  /\ fbOut = NoFeedback
  /\ fbOut' = makeFeedback(fbEx, fbPose)
  /\ UNCHANGED <<fbEx, fbPose>>
  /\ UNCHANGED notFeedback

InitFeedback ==
  /\ fbEx \in Exercises
  /\ fbPose \in Poses
  /\ fbOut = NoFeedback

IdleFeedback ==
  /\ fbEx = "standing"
  /\ fbPose = Pose(-1, <<-1, -1, -1, -1>>, 0, 0, 0, 0, 0)
  /\ fbOut = NoFeedback

NextFeedback ==
  \/ Classify

----------------------------------------------------------------------------
(***************************************************************************)
(* PostureTab: camera session and history                                  *)
(***************************************************************************)
PoUnitsPerSec == 2   \* clock units per second (the source counts 1000 ms)
PoMaxTime == 10      \* clock units a behaviour may last
PoMaxSessions == 1   \* startCamera calls a behaviour may make
PoMaxSwitches == 1   \* exercise changes a behaviour may make
PoMaxDeletes == 1    \* deleteHistory and clearHistory calls a behaviour may make
PoMaxShown == 1      \* entries of the list deleteHistory is called for
DEFAULT_FPS_TARGET == 30   \* line 52
MAX_HISTORY == 50          \* line 55
MinSaveSec == 5            \* line 185
MinSaveFrames == 120       \* line 185

\* lines 472-478: the frames loop lets through in one clock unit
FramesPerUnit == DEFAULT_FPS_TARGET \div PoUnitsPerSec

\* lines 156-166: resetSessionStats
NoStats == [frames |-> 0, correct |-> 0, warning |-> 0, bad |-> 0, noPerson |-> 0,
            numeric |-> 0]

\* line 180: Math.max(0, Math.round((endedAt - startedAt) / 1000))
durationSecOf(startedAt, endedAt) ==
  LET ms == endedAt - startedAt IN
  IF ms <= 0 THEN 0 ELSE (2 * ms + PoUnitsPerSec) \div (2 * PoUnitsPerSec)

\* a faulty variant: every stopped session is saved
shouldSave_Always(durationSec, frames) == TRUE

\* line 185: shouldSave
shouldSave(durationSec, frames) == durationSec >= MinSaveSec \/ frames >= MinSaveFrames

\* lines 191-194, 213-216: Number(((k / frames) * 100).toFixed(1)), in tenths
PctOf(k, frames) == (2000 * k + frames) \div (2 * frames)

\* lines 190-218: the PostureSession entry; avg is kept as "some metric was averaged"
Entry(id, ex, startedAt, endedAt, s) ==
  LET frames == IF s.frames < 1 THEN 1 ELSE s.frames IN
  [id |-> id, exercise |-> ex, startedAt |-> startedAt, endedAt |-> endedAt,
   durationSec |-> durationSecOf(startedAt, endedAt),
   frames |-> s.frames, correctFrames |-> s.correct, warningFrames |-> s.warning,
   badFrames |-> s.bad, noPersonFrames |-> s.noPerson,
   correctPct |-> PctOf(s.correct, frames), warningPct |-> PctOf(s.warning, frames),
   badPct |-> PctOf(s.bad, frames), noPersonPct |-> PctOf(s.noPerson, frames),
   avg |-> s.numeric > 0]

\* lines 103, 221: slice(0, MAX_HISTORY)
Capped(list) == IF Len(list) > MAX_HISTORY THEN SubSeq(list, 1, MAX_HISTORY) ELSE list

\* lines 174-227: finishSessionAndSave of the render whose exercise is ex, on the
\* history h and the stored copy st
finishSessionAndSave(ex, h, st) ==
  IF ~poSessionActive THEN [active |-> FALSE, history |-> h, stored |-> st]
  ELSE IF ~shouldSave(durationSecOf(poSessionStart, poNow), poStats.frames)
  THEN [active |-> FALSE, history |-> h, stored |-> st]
  ELSE LET next == Capped(<<Entry(poSessions, ex, poSessionStart, poNow, poStats)>> \o h) IN
       [active |-> FALSE, history |-> next, stored |-> next]

\* lines 229-243: stopAll of the render whose exercise is ex
StopAllOf(ex) ==
  LET f == finishSessionAndSave(ex, poHistory, poStored) IN
  /\ poSessionActive' = f.active
  /\ poHistory' = f.history
  /\ poStored' = f.stored
  /\ poRaf' = FALSE
  /\ poSrcObject' = FALSE
  /\ poCameraOn' = FALSE

\* lines 249-271: init() of the current effect settles
InitSettles(ok) ==
  /\ poInitPending
  /\ poInitPending' = FALSE
  /\ poLandmarker' = ok
  /\ poErr' = IF ok THEN poErr ELSE TRUE
  /\ poLoading' = FALSE
  /\ UNCHANGED <<poExercise, poCameraOn, poFeedback, poHistory, poStored, poStaleInits,
                 poSessionActive, poSessionStart, poStats, poNow, poCamPending, poSrcObject, poRaf, poSessions, poSwitches, poDeletes, poFrameEx>>
  /\ UNCHANGED notPosture

\* lines 264, 267-270: init() of an effect that was cleaned up settles
StaleInitSettles(ok) ==
  /\ poStaleInits > 0
  /\ poStaleInits' = poStaleInits - 1
  /\ poErr' = IF ok THEN poErr ELSE TRUE
  /\ poLoading' = IF ok THEN poLoading ELSE FALSE
  /\ UNCHANGED <<poExercise, poCameraOn, poFeedback, poHistory, poStored, poLandmarker,
                 poInitPending, poSessionActive, poSessionStart, poStats, poNow,
                 poCamPending, poSrcObject, poRaf, poSessions, poSwitches, poDeletes, poFrameEx>>
  /\ UNCHANGED notPosture

\* lines 283-289: startCamera up to getUserMedia (the button: lines 608-609)
StartCamera ==
  /\ ~poCameraOn /\ ~poLoading
  /\ poSessions + poCamPending < PoMaxSessions
  /\ poErr' = FALSE
  /\ poCamPending' = poCamPending + 1
  /\ UNCHANGED <<poExercise, poCameraOn, poLoading, poFeedback, poHistory, poStored,
                 poLandmarker, poInitPending, poStaleInits, poSessionActive,
                 poSessionStart, poStats, poNow, poSrcObject, poRaf,
                 poSessions, poSwitches, poDeletes, poFrameEx>>
  /\ UNCHANGED notPosture

\* lines 291-298, 168-172, 521-523: the stream arrives and plays; the session
\* starts; the effect of cameraOn requests the first frame
CameraGranted ==
  /\ poCamPending > 0
  /\ poCamPending' = poCamPending - 1
  /\ poSrcObject' = TRUE
  /\ poCameraOn' = TRUE
  /\ poSessionActive' = TRUE
  /\ poSessionStart' = poNow
  /\ poStats' = NoStats
  /\ poSessions' = poSessions + 1
  /\ poFrameEx' = {}
  /\ poRaf' = IF poCameraOn THEN poRaf ELSE TRUE
  /\ UNCHANGED <<poExercise, poLoading, poErr, poFeedback, poHistory, poStored,
                 poLandmarker, poInitPending, poStaleInits, poNow, poSwitches, poDeletes>>
  /\ UNCHANGED notPosture

\* lines 299-301: getUserMedia or play rejects
CameraDenied ==
  /\ poCamPending > 0
  /\ poCamPending' = poCamPending - 1
  /\ poErr' = TRUE
  /\ UNCHANGED <<poExercise, poCameraOn, poLoading, poFeedback, poHistory, poStored,
                 poLandmarker, poInitPending, poStaleInits, poSessionActive,
                 poSessionStart, poStats, poNow, poSrcObject, poRaf,
                 poSessions, poSwitches, poDeletes, poFrameEx>>
  /\ UNCHANGED notPosture

\* lines 466-519: the calls of loop during one clock unit, the person holding one
\* pose. Without a landmarker loop returns and requests no further frame.
LoopBurst(pose) ==
  /\ poCameraOn /\ poRaf
  /\ poLandmarker => poNow < PoMaxTime
  /\ IF ~poLandmarker
     THEN /\ poRaf' = FALSE
          /\ UNCHANGED <<poFeedback, poStats, poNow, poFrameEx>>
     ELSE LET fb == makeFeedback(poExercise, pose)
              k == FramesPerUnit
          IN /\ poFeedback' = fb.status
             /\ poStats' = [frames |-> poStats.frames + k,
                  correct |-> poStats.correct + (IF fb.status = "correct" THEN k ELSE 0),
                  warning |-> poStats.warning + (IF fb.status = "warning" THEN k ELSE 0),
                  bad |-> poStats.bad + (IF fb.status = "bad" THEN k ELSE 0),
                  noPerson |-> poStats.noPerson
                     + (IF fb.status \notin {"correct", "warning", "bad"} THEN k ELSE 0),
                  numeric |-> poStats.numeric + (IF fb.numeric THEN k ELSE 0)]
             /\ poNow' = poNow + 1
             /\ poFrameEx' = poFrameEx \cup {poExercise}
             /\ UNCHANGED poRaf
  /\ UNCHANGED <<poExercise, poCameraOn, poLoading, poErr, poHistory, poStored,
                 poLandmarker, poInitPending, poStaleInits, poSessionActive,
                 poSessionStart, poCamPending, poSrcObject, poSessions,
                 poSwitches, poDeletes>>
  /\ UNCHANGED notPosture

\* line 613: Stop Camera
StopCamera ==
  /\ poCameraOn
  /\ StopAllOf(poExercise)
  /\ UNCHANGED <<poExercise, poLoading, poErr, poFeedback, poLandmarker, poInitPending,
                 poStaleInits, poSessionStart, poStats, poNow, poCamPending,
                 poSessions, poSwitches, poDeletes, poFrameEx>>
  /\ UNCHANGED notPosture

\* the exercises a camera session is switched to
SwitchTargets == {"squat"}

\* a faulty variant: the cleanup runs the stopAll of the new render
SetExercise_NewClosure(ex) ==
  /\ ex # poExercise
  /\ poSwitches < PoMaxSwitches
  /\ poSwitches' = poSwitches + 1
  /\ poExercise' = ex
  /\ StopAllOf(ex)
  /\ poLandmarker' = FALSE
  /\ poStaleInits' = IF poInitPending THEN poStaleInits + 1 ELSE poStaleInits
  /\ poInitPending' = TRUE
  /\ poLoading' = TRUE
  /\ poErr' = FALSE
  /\ UNCHANGED <<poFeedback, poSessionStart, poStats, poNow, poCamPending,
                 poSessions, poDeletes, poFrameEx>>
  /\ UNCHANGED notPosture

\* lines 586, 600, 246-281: another exercise is chosen. stopAll is a new function, so
\* the cleanup of the init effect runs the stopAll of the previous render, closes
\* the landmarker, and init() starts again.
SetExercise(ex) ==
  /\ ex # poExercise
  /\ poSwitches < PoMaxSwitches
  /\ poSwitches' = poSwitches + 1
  /\ poExercise' = ex
  /\ StopAllOf(poExercise)
  /\ poLandmarker' = FALSE
  /\ poStaleInits' = IF poInitPending THEN poStaleInits + 1 ELSE poStaleInits
  /\ poInitPending' = TRUE
  /\ poLoading' = TRUE
  /\ poErr' = FALSE
  /\ UNCHANGED <<poFeedback, poSessionStart, poStats, poNow, poCamPending,
                 poSessions, poDeletes, poFrameEx>>
  /\ UNCHANGED notPosture

\* lines 548-554: deleteHistory of the i-th entry shown
DeleteHistory(i) ==
  /\ i \in 1..Len(poHistory) /\ i <= 10 /\ i <= PoMaxShown
  /\ poDeletes < PoMaxDeletes
  /\ poDeletes' = poDeletes + 1
  /\ LET next == SelectSeq(poHistory, LAMBDA x : x.id # poHistory[i].id) IN
       /\ poHistory' = next
       /\ poStored' = Capped(next)
  /\ UNCHANGED <<poExercise, poCameraOn, poLoading, poErr, poFeedback, poLandmarker,
                 poInitPending, poStaleInits, poSessionActive, poSessionStart, poStats,
                 poNow, poCamPending, poSrcObject, poRaf, poSessions,
                 poSwitches, poFrameEx>>
  /\ UNCHANGED notPosture

\* lines 556-559: clearHistory (the button: line 679)
ClearHistory ==
  /\ Len(poHistory) > 0
  /\ poDeletes < PoMaxDeletes
  /\ poDeletes' = poDeletes + 1
  /\ poHistory' = <<>>
  /\ poStored' = <<>>
  /\ UNCHANGED <<poExercise, poCameraOn, poLoading, poErr, poFeedback, poLandmarker,
                 poInitPending, poStaleInits, poSessionActive, poSessionStart, poStats,
                 poNow, poCamPending, poSrcObject, poRaf, poSessions,
                 poSwitches, poFrameEx>>
  /\ UNCHANGED notPosture

\* lines 170, 178: Date.now() moves on by one unit and loop processes no frame
PoAdvanceClock ==
  /\ poSessionActive
  /\ poNow < PoMaxTime
  /\ poNow' = poNow + 1
  /\ UNCHANGED <<poExercise, poCameraOn, poLoading, poErr, poFeedback, poHistory, poStored,
                 poLandmarker, poInitPending, poStaleInits, poSessionActive,
                 poSessionStart, poStats, poCamPending, poSrcObject, poRaf, poSessions,
                 poSwitches, poDeletes, poFrameEx>>
  /\ UNCHANGED notPosture

\* lines 90-100: a stored history of MAX_HISTORY entries
OldPostureHistory ==
  [i \in 1..MAX_HISTORY |->
     Entry(-i, "standing", 0, PoUnitsPerSec * MinSaveSec,
           [NoStats EXCEPT !.frames = DEFAULT_FPS_TARGET, !.correct = DEFAULT_FPS_TARGET,
                           !.numeric = DEFAULT_FPS_TARGET])]

\* lines 122-154: the tab as it mounts, init() of the first effect in flight
IdlePosture ==
  /\ poExercise = "standing"
  /\ poCameraOn = FALSE
  /\ poLoading = TRUE
  /\ poErr = FALSE
  /\ poFeedback = "no_person"
  /\ poHistory = <<>>
  /\ poStored = <<>>
  /\ poLandmarker = FALSE
  /\ poInitPending = TRUE
  /\ poStaleInits = 0
  /\ poSessionActive = FALSE
  /\ poSessionStart = 0
  /\ poStats = NoStats
  /\ poNow = 0
  /\ poCamPending = 0
  /\ poSrcObject = FALSE
  /\ poRaf = FALSE
  /\ poSessions = 0
  /\ poSwitches = 0
  /\ poDeletes = 0
  /\ poFrameEx = {}

InitPosture ==
  /\ poExercise = "standing"
  /\ poCameraOn = FALSE
  /\ poLoading = TRUE
  /\ poErr = FALSE
  /\ poFeedback = "no_person"
  /\ poStored = OldPostureHistory
  /\ poHistory = poStored
  /\ poLandmarker = FALSE
  /\ poInitPending = TRUE
  /\ poStaleInits = 0
  /\ poSessionActive = FALSE
  /\ poSessionStart = 0
  /\ poStats = NoStats
  /\ poNow = 0
  /\ poCamPending = 0
  /\ poSrcObject = FALSE
  /\ poRaf = FALSE
  /\ poSessions = 0
  /\ poSwitches = 0
  /\ poDeletes = 0
  /\ poFrameEx = {}

NextPosture ==
  \/ \E ok \in BOOLEAN : InitSettles(ok)
  \/ \E ok \in BOOLEAN : StaleInitSettles(ok)
  \/ StartCamera
  \/ CameraGranted
  \/ CameraDenied
  \/ \E pose \in FramePoses : LoopBurst(pose)
  \/ StopCamera
  \/ \E ex \in SwitchTargets : SetExercise(ex)
  \/ \E i \in 1..PoMaxShown : DeleteHistory(i)
  \/ ClearHistory
  \/ PoAdvanceClock

----------------------------------------------------------------------------
(***************************************************************************)
(* Browser storage: the load and save functions of the persisted entities  *)
(***************************************************************************)
StorageEntities == {"workout", "chat", "plan", "posture", "theme", "avatar"}

\* what the key holds: no item, a string that is no JSON, or a stored value
StoreContents == {"missing", "badJson", "value"}

\* localStorage.getItem: throws when storage is denied, else the item (null without)
getItem(store) == IF store.fault THEN "thrown" ELSE store.content

\* localStorage.setItem / removeItem: throws when storage is denied or full
setItem(store) == IF store.fault THEN "thrown" ELSE "saved"

\* JSON.parse(raw): a SyntaxError for a string that is no JSON
JSONparse(raw) == IF raw = "badJson" THEN "thrown" ELSE raw

\* try { body } catch { return fallback }
TryCatch(outcome, fallback) == IF outcome = "thrown" THEN fallback ELSE outcome

\* the four loads that parse JSON: a missing item gives the fallback (WorkoutTab
\* line 123 throws for it inside the try), the parsed value is returned otherwise
ParsedLoad(store) ==
  LET raw == getItem(store) IN
  IF raw = "thrown" THEN "thrown"
  ELSE IF raw = "missing" THEN "fallback"
  ELSE JSONparse(raw)

\* WorkoutTab lines 120-133
wkLoadPersisted(store) == TryCatch(ParsedLoad(store), "fallback")
\* WorkoutTab lines 134-136
wkSavePersisted(store) == setItem(store)
\* ChatTab lines 97-107
loadSessions(store) == TryCatch(ParsedLoad(store), "fallback")
\* ChatTab lines 109-111
saveSessions(store) == setItem(store)
\* PlanTab lines 221-245
planLoadPersisted(store) == TryCatch(ParsedLoad(store), "fallback")
\* PlanTab lines 247-250
planSavePersisted(store) == setItem(store)
\* PostureTab lines 90-100
loadHistory(store) == TryCatch(ParsedLoad(store), "fallback")
\* PostureTab lines 102-104
saveHistory(store) == setItem(store)

\* DashboardTab lines 40-46 and 60-66: the raw item, or the fallback without one
RawLoad(store) ==
  LET raw == getItem(store) IN
  IF raw = "thrown" THEN "thrown"
  ELSE IF raw = "missing" THEN "fallback" ELSE "value"

readTheme(store) == TryCatch(RawLoad(store), "fallback")
readAvatar(store) == TryCatch(RawLoad(store), "fallback")
\* DashboardTab lines 48-52
writeTheme(store) == TryCatch(setItem(store), "swallowed")
\* DashboardTab lines 68-73
writeAvatar(store) == TryCatch(setItem(store), "swallowed")

\* the entity's load function is called
StorageLoad ==
  /\ stOp = "load" /\ stResult = "pending"
  /\ stResult' = CASE stEntity = "workout" -> wkLoadPersisted(stStore)
                   [] stEntity = "chat" -> loadSessions(stStore)
                   [] stEntity = "plan" -> planLoadPersisted(stStore)
                   [] stEntity = "posture" -> loadHistory(stStore)
                   [] stEntity = "theme" -> readTheme(stStore)
                   [] stEntity = "avatar" -> readAvatar(stStore)
  /\ UNCHANGED <<stEntity, stOp, stStore>>
  /\ UNCHANGED notStorage

\* the entity's save function is called
StorageSave ==
  /\ stOp = "save" /\ stResult = "pending"
  /\ stResult' = CASE stEntity = "workout" -> wkSavePersisted(stStore)
                   [] stEntity = "chat" -> saveSessions(stStore)
                   [] stEntity = "plan" -> planSavePersisted(stStore)
                   [] stEntity = "posture" -> saveHistory(stStore)
                   [] stEntity = "theme" -> writeTheme(stStore)
                   [] stEntity = "avatar" -> writeAvatar(stStore)
  /\ UNCHANGED <<stEntity, stOp, stStore>>
  /\ UNCHANGED notStorage

InitStorage ==
  /\ stEntity \in StorageEntities
  /\ stOp \in {"load", "save"}
  /\ stStore \in [fault : BOOLEAN, content : StoreContents]
  /\ stResult = "pending"

IdleStorage ==
  /\ stEntity = "theme"
  /\ stOp = "load"
  /\ stStore = [fault |-> FALSE, content |-> "missing"]
  /\ stResult = "pending"

NextStorage ==
  \/ StorageLoad
  \/ StorageSave

----------------------------------------------------------------------------
(***************************************************************************)
(* Server: POST /api/ai/chat (index.js) and deepseekHandler                *)
(***************************************************************************)
\* strings are sequences of characters
RECURSIVE TrimStart(_)
TrimStart(s) == IF s # <<>> /\ Head(s) = " " THEN TrimStart(Tail(s)) ELSE s
RECURSIVE TrimEnd(_)
TrimEnd(s) == IF s # <<>> /\ s[Len(s)] = " " THEN TrimEnd(SubSeq(s, 1, Len(s) - 1)) ELSE s

\* a faulty variant: nothing is trimmed
Trim_Identity(s) == s

\* String.prototype.trim
Trim(s) == TrimEnd(TrimStart(s))

\* the prompt field of a parsed body: absent, null, a string, or a number
Prompts ==
  {[type |-> "missing", s |-> <<>>], [type |-> "null", s |-> <<>>],
   [type |-> "number", s |-> <<"5">>]}
    \cup {[type |-> "string", s |-> s] :
            s \in {<<>>, <<" ">>, <<" ", " ">>, <<"h", "i">>, <<" ", "h", "i", " ">>}}

NoPrompt == [type |-> "missing", s |-> <<>>]

\* request bodies: no JSON, more than 1 MB, or a JSON object
Bodies ==
  {[kind |-> "malformed", prompt |-> NoPrompt], [kind |-> "tooLarge", prompt |-> NoPrompt]}
    \cup {[kind |-> "object", prompt |-> p] : p \in Prompts}

NoResp == [status |-> 0, kind |-> "none", error |-> "", text |-> "", tokensUsed |-> 0]
ErrorResp(status, error) ==
  [status |-> status, kind |-> "error", error |-> error, text |-> "", tokensUsed |-> 0]
ReplyResp(text, tokensUsed) ==
  [status |-> 200, kind |-> "reply", error |-> "", text |-> text, tokensUsed |-> tokensUsed]

\* index.js line 9: express.json({ limit: "1mb" }) answers a body that is no JSON
\* with 400 and a body over the limit with 413; the route handler is not called
expressJson(body) ==
  CASE body.kind = "malformed" -> ErrorResp(400, "entity.parse.failed")
    [] body.kind = "tooLarge" -> ErrorResp(413, "entity.too.large")
    [] OTHER -> NoResp

\* index.js line 16: String(req.body?.prompt ?? "").trim()
groqPrompt(p) == IF p.type \in {"missing", "null"} THEN <<>> ELSE Trim(p.s)

\* index.js lines 13-17: the handler up to fetch; NoResp when it goes on to fetch
groqValidate(key, body) ==
  IF ~key THEN ErrorResp(500, "Missing GROQ_API_KEY")
  ELSE IF groqPrompt(body.prompt) = <<>> THEN ErrorResp(400, "Missing prompt")
  ELSE NoResp

\* deepseek.ts lines 5-13, 41-43: prompt?.trim() of a number throws a TypeError
deepseekValidate(key, body) ==
  IF ~key THEN ErrorResp(500, "Missing DEEPSEEK_API_KEY on server")
  ELSE IF body.prompt.type \in {"missing", "null"} THEN ErrorResp(400, "Missing prompt")
  ELSE IF body.prompt.type = "number" THEN ErrorResp(500, "prompt?.trim is not a function")
  ELSE IF Trim(body.prompt.s) = <<>> THEN ErrorResp(400, "Missing prompt")
  ELSE NoResp

\* x ?? d, None standing for null and undefined
Nullish(x, None, d) == IF x = None THEN d ELSE x

\* what the provider answers: a status and a payload. A payload that is no JSON has
\* json FALSE; content and tokens are "none" and -1 where the JSON lacks them
Answers ==
  [status : {200, 201, 401, 429}, json : BOOLEAN, error : {"rate limited"},
   content : {"none", "", "reply"}, tokens : {-1, 0, 7}]

NoAnswer == [status |-> 0, json |-> FALSE, error |-> "", content |-> "none", tokens |-> -1]

\* Response.ok
ResponseOk(status) == status >= 200 /\ status <= 299

\* index.js lines 37-49, deepseek.ts lines 31-43: the handler after fetch resolved
Relay(ans) ==
  IF ~ans.json THEN ErrorResp(500, "Unexpected token")       \* r.json() rejects
  ELSE IF ~ResponseOk(ans.status) THEN ErrorResp(ans.status, ans.error)
  ELSE ReplyResp(Nullish(ans.content, "none", ""), Nullish(ans.tokens, -1, 0))

\* the request arrives: middleware, then the handler up to its first await
Receive ==
  /\ pxPhase = "received"
  /\ LET early == IF pxHandler = "groq" THEN expressJson(pxBody) ELSE NoResp
         checked == IF early # NoResp THEN early
                    ELSE IF pxHandler = "groq" THEN groqValidate(pxKey, pxBody)
                    ELSE deepseekValidate(pxKey, pxBody)
     IN IF checked # NoResp
        THEN /\ pxResp' = checked
             /\ pxPhase' = "responded"
             /\ UNCHANGED pxUpstream
        ELSE /\ pxUpstream' = pxUpstream + 1        \* index.js line 20, deepseek.ts line 15
             /\ pxPhase' = "upstream"
             /\ UNCHANGED pxResp
  /\ UNCHANGED <<pxHandler, pxKey, pxBody, pxAnswer>>
  /\ UNCHANGED notProxy

\* fetch resolves with the provider's response and r.json() settles
ProviderAnswers(ans) ==
  /\ pxPhase = "upstream"
  /\ pxAnswer' = ans
  /\ pxResp' = Relay(ans)
  /\ pxPhase' = "responded"
  /\ UNCHANGED <<pxHandler, pxKey, pxBody, pxUpstream>>
  /\ UNCHANGED notProxy

\* fetch rejects: the provider cannot be reached
ProviderUnreachable ==
  /\ pxPhase = "upstream"
  /\ pxResp' = ErrorResp(500, "fetch failed")
  /\ pxPhase' = "responded"
  /\ UNCHANGED <<pxHandler, pxKey, pxBody, pxUpstream, pxAnswer>>
  /\ UNCHANGED notProxy

\* the server is up with or without a key (index.js lines 52-53 read no key);
\* deepseekHandler is handed a parsed body
InitProxy ==
  /\ pxHandler \in {"groq", "deepseek"}
  /\ pxKey \in BOOLEAN
  /\ pxBody \in Bodies
  /\ pxHandler = "deepseek" => pxBody.kind = "object"
  /\ pxPhase = "received"
  /\ pxUpstream = 0
  /\ pxAnswer = NoAnswer
  /\ pxResp = NoResp

IdleProxy ==
  /\ pxHandler = "groq"
  /\ pxKey = TRUE
  /\ pxBody = [kind |-> "object", prompt |-> NoPrompt]
  /\ pxPhase = "received"
  /\ pxUpstream = 0
  /\ pxAnswer = NoAnswer
  /\ pxResp = NoResp

NextProxy ==
  \/ Receive
  \/ \E ans \in Answers : ProviderAnswers(ans)
  \/ ProviderUnreachable

----------------------------------------------------------------------------
(***************************************************************************)
(* LoginPage                                                               *)
(***************************************************************************)
MaxSubmits == 2     \* presses of the submit button in one behaviour
MinPassword == 6    \* line 26: password.trim().length < 6
MinName == 2        \* line 27: name.trim().length < 2

\* [^\s@]
Plain1(c) == c # " " /\ c # "@"

\* a faulty variant: the address is tested as typed
isValidEmail_NoTrim(v) ==
  \E at \in 1..Len(v) : \E dot \in 1..Len(v) :
     /\ v[at] = "@" /\ v[dot] = "."
     /\ at > 1 /\ dot > at + 1 /\ dot < Len(v)
     /\ \A i \in 1..Len(v) : i # at => Plain1(v[i])

\* lines 8-10: /^[^\s@]+@[^\s@]+\.[^\s@]+$/.test(v.trim())
isValidEmail(v) ==
  LET s == Trim(v) IN
  \E at \in 1..Len(s) : \E dot \in 1..Len(s) :
     /\ s[at] = "@" /\ s[dot] = "."
     /\ at > 1 /\ dot > at + 1 /\ dot < Len(s)
     /\ \A i \in 1..Len(s) : i # at => Plain1(s[i])


Emails == {<<>>, <<"a", "@", "b", ".", "c">>, <<" ", "a", "@", "b", ".", "c", " ">>,
           <<"a", "@", "b">>, <<"a", " ", "@", "b", ".", "c">>, <<"a", "@", "@", "b", ".", "c">>,
           <<"a", "@", ".", "c">>}

Passwords == {<<"s", "e", "c", "r", "e", "t">>, <<"s", "e", "c", "r", "e">>,
              <<" ", " ", " ", " ", " ", " ">>,
              <<" ", "s", "e", "c", "r", "e", " ">>,
              <<" ", "s", "e", "c", "r", "e", "t", " ">>}

Names == {<<>>, <<"J">>, <<"J", "o">>, <<"J", " ">>}

\* lines 24-29: canSubmit
canSubmit ==
  /\ isValidEmail(lgEmail)
  /\ Len(Trim(lgPassword)) >= MinPassword
  /\ lgMode = "signup" => Len(Trim(lgName)) >= MinName

\* lines 31-40: handleSubmit up to the timer
handleSubmit ==
  IF ~isValidEmail(lgEmail) THEN lgError' = "Please enter a valid email." /\ UNCHANGED lgBusy
  ELSE IF Len(Trim(lgPassword)) < MinPassword
    THEN lgError' = "Password must be at least 6 characters." /\ UNCHANGED lgBusy
  ELSE IF lgMode = "signup" /\ Len(Trim(lgName)) < MinName
    THEN lgError' = "Please enter your name." /\ UNCHANGED lgBusy
  ELSE lgError' = "" /\ lgBusy' = TRUE

\* line 175: the user presses the submit button; it is disabled without canSubmit
\* and while busy, and the form is then not submitted
SubmitClick ==
  /\ lgSubmits < MaxSubmits
  /\ lgSubmits' = lgSubmits + 1
  /\ IF ~canSubmit \/ lgBusy THEN UNCHANGED <<lgError, lgBusy>> ELSE handleSubmit
  /\ UNCHANGED <<lgMode, lgEmail, lgPassword, lgName, lgRemember, lgStorageFails, lgLocal,
                 lgSession, lgSuccess>>
  /\ UNCHANGED notLogin

\* lines 43-60: the timer callback; the record is [email] of the user written
TimerCallback ==
  /\ lgBusy
  /\ IF lgStorageFails
     THEN /\ lgError' = "QuotaExceededError"
          /\ UNCHANGED <<lgLocal, lgSession, lgSuccess>>
     ELSE /\ lgLocal' = IF lgRemember THEN Trim(lgEmail) ELSE lgLocal
          /\ lgSession' = IF lgRemember THEN lgSession ELSE Trim(lgEmail)
          /\ lgSuccess' = lgSuccess + 1
          /\ UNCHANGED lgError
  /\ lgBusy' = FALSE
  /\ UNCHANGED <<lgMode, lgEmail, lgPassword, lgName, lgRemember, lgStorageFails, lgSubmits>>
  /\ UNCHANGED notLogin

\* lines 91, 101: the Login / Sign up switch
SetMode(m) ==
  /\ lgMode # m
  /\ lgMode' = m
  /\ lgError' = ""
  /\ UNCHANGED <<lgEmail, lgPassword, lgName, lgRemember, lgBusy, lgStorageFails,
                 lgLocal, lgSession, lgSuccess, lgSubmits>>
  /\ UNCHANGED notLogin

\* line 161: the Remember me checkbox
SetRemember(r) ==
  /\ lgRemember # r
  /\ lgRemember' = r
  /\ UNCHANGED <<lgMode, lgEmail, lgPassword, lgName, lgBusy, lgError, lgStorageFails,
                 lgLocal, lgSession, lgSuccess, lgSubmits>>
  /\ UNCHANGED notLogin

\* lines 13-22: the page with the fields as the user filled them in; no auth record
\* is stored (App shows the page only then, part_000 lines 131-136)
InitLogin ==
  /\ lgMode = "login"
  /\ lgEmail \in Emails
  /\ lgPassword \in Passwords
  /\ lgName \in Names
  /\ lgRemember = TRUE
  /\ lgBusy = FALSE
  /\ lgError = ""
  /\ lgStorageFails \in BOOLEAN
  /\ lgLocal = <<>>
  /\ lgSession = <<>>
  /\ lgSuccess = 0
  /\ lgSubmits = 0

IdleLogin ==
  /\ lgMode = "login"
  /\ lgEmail = <<>>
  /\ lgPassword = <<>>
  /\ lgName = <<>>
  /\ lgRemember = TRUE
  /\ lgBusy = FALSE
  /\ lgError = ""
  /\ lgStorageFails = FALSE
  /\ lgLocal = <<>>
  /\ lgSession = <<>>
  /\ lgSuccess = 0
  /\ lgSubmits = 0

NextLogin ==
  \/ SubmitClick
  \/ TimerCallback
  \/ \E m \in {"login", "signup"} : SetMode(m)
  \/ \E r \in BOOLEAN : SetRemember(r)

----------------------------------------------------------------------------
(***************************************************************************)
(* PlanTab: subscription and coach booking                                 *)
(***************************************************************************)
MaxSubOps == 6     \* handlers run in one behaviour
MaxCoach == 2      \* coaches of COACHES told apart

PlanTiers == {"Basic", "Pro", "Elite"}
CoachIds == 1..MaxCoach

NoSubscription == [tier |-> "none", active |-> FALSE]

\* line 345: hasElite
hasElite == sbSubscription.active /\ sbSubscription.tier = "Elite"

\* every handler below counts itself
SubOp == sbOps < MaxSubOps /\ sbOps' = sbOps + 1

\* lines 557-559: onSelectTier, on the subscriptions view
SelectTier(tier) ==
  /\ SubOp /\ ~sbCheckoutOpen
  /\ sbSelectedTier # tier
  /\ sbSelectedTier' = tier
  /\ UNCHANGED <<sbSubscription, sbBookedCoachId, sbSelectedCoachId, sbCheckoutOpen,
                 sbCheckoutMode>>
  /\ UNCHANGED notSub

\* lines 434-437: openSubscriptionCheckout
OpenSubscriptionCheckout ==
  /\ SubOp /\ ~sbCheckoutOpen
  /\ sbCheckoutMode' = "subscription"
  /\ sbCheckoutOpen' = TRUE
  /\ UNCHANGED <<sbSubscription, sbBookedCoachId, sbSelectedCoachId, sbSelectedTier>>
  /\ UNCHANGED notSub

\* lines 439-443: openCoachCheckout; the Hire buttons are disabled without hasElite
\* (line 1049), on a coach card unless that coach is the booked one (line 979)
OpenCoachCheckout(c) ==
  /\ SubOp /\ ~sbCheckoutOpen
  /\ hasElite \/ sbBookedCoachId = c
  /\ sbSelectedCoachId' = c
  /\ sbCheckoutMode' = "coach"
  /\ sbCheckoutOpen' = TRUE
  /\ UNCHANGED <<sbSubscription, sbBookedCoachId, sbSelectedTier>>
  /\ UNCHANGED notSub

\* lines 445-447: closeCheckout
CloseCheckout ==
  /\ SubOp /\ sbCheckoutOpen
  /\ sbCheckoutOpen' = FALSE
  /\ UNCHANGED <<sbSubscription, sbBookedCoachId, sbSelectedCoachId, sbSelectedTier,
                 sbCheckoutMode>>
  /\ UNCHANGED notSub

\* lines 449-476: activateSubscription (Pay & activate, line 1196)
ActivateSubscription ==
  /\ SubOp /\ sbCheckoutOpen /\ sbCheckoutMode = "subscription"
  /\ sbSubscription' = [tier |-> sbSelectedTier, active |-> TRUE]
  /\ sbCheckoutOpen' = FALSE
  /\ UNCHANGED <<sbBookedCoachId, sbSelectedCoachId, sbSelectedTier, sbCheckoutMode>>
  /\ UNCHANGED notSub

\* lines 478-489: bookCoach (Pay & hire coach, disabled without hasElite, line 1220)
BookCoach ==
  /\ SubOp /\ sbCheckoutOpen /\ sbCheckoutMode = "coach"
  /\ hasElite
  /\ IF sbSelectedCoachId = 0
     THEN UNCHANGED <<sbBookedCoachId, sbCheckoutOpen>>
     ELSE sbBookedCoachId' = sbSelectedCoachId /\ sbCheckoutOpen' = FALSE
  /\ UNCHANGED <<sbSubscription, sbSelectedCoachId, sbSelectedTier, sbCheckoutMode>>
  /\ UNCHANGED notSub

\* lines 491-497: cancelSubscription (shown with an active subscription, line 719)
CancelSubscription ==
  /\ SubOp /\ ~sbCheckoutOpen
  /\ sbSubscription.active
  /\ sbSubscription' = NoSubscription
  /\ UNCHANGED <<sbBookedCoachId, sbSelectedCoachId, sbSelectedTier, sbCheckoutOpen,
                 sbCheckoutMode>>
  /\ UNCHANGED notSub

\* lines 499-505: unbookCoach (shown with a booked coach, line 796)
UnbookCoach ==
  /\ SubOp /\ ~sbCheckoutOpen
  /\ sbBookedCoachId # 0
  /\ sbBookedCoachId' = 0
  /\ UNCHANGED <<sbSubscription, sbSelectedCoachId, sbSelectedTier, sbCheckoutOpen,
                 sbCheckoutMode>>
  /\ UNCHANGED notSub

\* lines 296-310: no coach is booked; the stored subscription is any
InitSub ==
  /\ sbSubscription \in {NoSubscription} \cup [tier : PlanTiers, active : {TRUE}]
  /\ sbBookedCoachId = 0
  /\ sbSelectedCoachId = 0
  /\ sbSelectedTier = "Pro"
  /\ sbCheckoutOpen = FALSE
  /\ sbCheckoutMode = "subscription"
  /\ sbOps = 0

IdleSub ==
  /\ sbSubscription = NoSubscription
  /\ sbBookedCoachId = 0
  /\ sbSelectedCoachId = 0
  /\ sbSelectedTier = "Pro"
  /\ sbCheckoutOpen = FALSE
  /\ sbCheckoutMode = "subscription"
  /\ sbOps = 0

NextSub ==
  \/ \E tier \in PlanTiers : SelectTier(tier)
  \/ OpenSubscriptionCheckout
  \/ \E c \in CoachIds : OpenCoachCheckout(c)
  \/ CloseCheckout
  \/ ActivateSubscription
  \/ BookCoach
  \/ CancelSubscription
  \/ UnbookCoach

----------------------------------------------------------------------------
IdleOther == IdleStorage /\ IdleProxy /\ IdleLogin /\ IdleSub
IdleRest == IdleVoice /\ IdlePosture /\ IdleFeedback /\ IdleOther
IdleTabs == IdleLoader /\ InitChat /\ IdlePlan /\ IdleWorkout /\ IdleVoice /\ IdlePosture
              /\ IdleFeedback

InitLoaderSpec == InitLoader /\ InitChat /\ IdlePlan /\ IdleWorkout /\ IdleRest
SpecLoader == InitLoaderSpec /\ [][NextLoader]_vars

InitChatSpec == InitChat /\ IdleLoader /\ IdlePlan /\ IdleWorkout /\ IdleRest
SpecChat == InitChatSpec /\ [][NextChat]_vars

InitPlanSpec == InitPlan /\ IdleLoader /\ InitChat /\ IdleWorkout /\ IdleRest
SpecPlan == InitPlanSpec /\ [][NextPlan]_vars

InitWorkoutSpec == InitWorkout /\ IdleLoader /\ InitChat /\ IdlePlan /\ IdleRest
SpecWorkout == InitWorkoutSpec /\ [][NextWorkout]_vars

InitVoiceSpec == InitVoice /\ IdleLoader /\ InitChat /\ IdlePlan /\ IdleWorkout
                   /\ IdlePosture /\ IdleFeedback /\ IdleOther
SpecVoice == InitVoiceSpec /\ [][NextVoice]_vars

\* The two tabs that call generateCoachReply. App renders the active tab only, so a
\* behaviour is a visit to one of the two.
ChatVisit == voiceEvent = <<"init", 0>> /\ NextChat
VoiceVisit == chatEvent = "init" /\ NextVoice
NextCompletion == ChatVisit \/ VoiceVisit
InitCompletionSpec == InitChat /\ InitVoice /\ IdleLoader /\ IdlePlan /\ IdleWorkout
                        /\ IdlePosture /\ IdleFeedback /\ IdleOther
SpecCompletion == InitCompletionSpec /\ [][NextCompletion]_vars

InitFeedbackSpec == InitFeedback /\ IdleLoader /\ InitChat /\ IdlePlan /\ IdleWorkout
                      /\ IdleVoice /\ IdlePosture /\ IdleOther
SpecFeedback == InitFeedbackSpec /\ [][NextFeedback]_vars

InitPostureSpec == InitPosture /\ IdleLoader /\ InitChat /\ IdlePlan /\ IdleWorkout
                     /\ IdleVoice /\ IdleFeedback /\ IdleOther
SpecPosture == InitPostureSpec /\ [][NextPosture]_vars

InitStorageSpec == InitStorage /\ IdleTabs /\ IdleProxy /\ IdleLogin /\ IdleSub
SpecStorage == InitStorageSpec /\ [][NextStorage]_vars

InitProxySpec == InitProxy /\ IdleTabs /\ IdleStorage /\ IdleLogin /\ IdleSub
SpecProxy == InitProxySpec /\ [][NextProxy]_vars

InitLoginSpec == InitLogin /\ IdleTabs /\ IdleStorage /\ IdleProxy /\ IdleSub
SpecLogin == InitLoginSpec /\ [][NextLogin]_vars

InitSubSpec == InitSub /\ IdleTabs /\ IdleStorage /\ IdleProxy /\ IdleLogin
SpecSub == InitSubSpec /\ [][NextSub]_vars

\* C1: an ensure() made while an earlier one is downloading or loading resolves to
\* the outcome of that in-flight operation, no second operation is started beside
\* it, and each operation invokes downloadModel and loadModel at most once.
C1_SharedInflight ==
  /\ Cardinality(InFlight) <= 1
  /\ \A k \in OpIds : ops[k].dl <= 1 /\ ops[k].ld <= 1
  /\ \A i \in 1..Len(calls) : \A k \in calls[i].during :
        (CallOutcome(calls[i]) # "pending" /\ OpOutcome(k) # "pending")
           => CallOutcome(calls[i]) = OpOutcome(k)

\* Two calls joined one operation that downloaded and loaded once, and all settled.
C1_Witness ==
  \E i, j \in 1..Len(calls) : \E k \in OpIds :
     /\ i < j
     /\ calls[i].during = {} /\ calls[i].got = k
     /\ calls[j].during = {k}
     /\ ops[k].dl = 1 /\ ops[k].ld = 1
     /\ OpOutcome(k) \in {"true", "false"}
     /\ CallOutcome(calls[j]) = OpOutcome(k)

\* C2: once an ensure() operation has finished, inflightRef is cleared: the
\* cached promise is never one that has already settled.
C2_ClearedWhenFinished ==
  inflightRef # 0 => Pending(ops[inflightRef].pc)

\* C3: cancelling an in-flight chat request leaves the placeholder of that send
\* unmodified (empty text, no stats), and once the cancelled request has settled
\* generating is false and apiState is "ready".
C3_CancelLeavesReady ==
  /\ \A p \in cancelledPh : \A i \in 1..Len(sessions) :
        sessions[i].id = p[1] => sessions[i].messages[p[2] + 1] = Placeholder
  /\ chatEvent = "abortSettled" => (~generating /\ apiState = "ready")

\* C4: exactly one chat session is active: activeId is the id of one session.
C4_ExactlyOneActive ==
  Cardinality({i \in 1..Len(sessions) : sessions[i].id = activeId}) = 1

\* A weekly plan of exactly 7 entries, one per weekday Mon..Sun.
IsWeek(plan) ==
  /\ Len(plan) = 7
  /\ {plan[i].day : i \in 1..Len(plan)} = PlanDayNames

\* C5: the weekly plan returned by loadPersisted has exactly 7 entries, one per
\* distinct weekday, whatever is stored under the plan storage key.
C5_LoadedPlanIsWeek ==
  planLoaded => IsWeek(planWeekly)

\* The session is on a step, and which one.
CurStep == StepAt(wkSession.activeWorkoutId, wkSession.currentStepIndex)
OnStrength == wkSession # NoSession /\ CurStep.sets > 0
OnLast == wkSession # NoSession
          /\ wkSession.currentStepIndex = StepCount(wkSession.activeWorkoutId) - 1
\* The stepper moved forward within the session.
MovedForward == /\ wkSession # NoSession /\ wkSession' # NoSession
                /\ wkSession'.currentStepIndex > wkSession.currentStepIndex
\* A tick that finds the countdown of an unpaused timed step at or below zero.
TickReachesZero == /\ wkSession # NoSession /\ ~wkSession.paused
                   /\ CurStep.durationSec # -1
                   /\ deltaSec(lastTickRef) > 0
                   /\ wkSession.remainingSec - deltaSec(lastTickRef) <= 0

\* C6 (as claimed): the stepper moves forward past a strength step with n sets
\* only by the n-th completeSet on it; no other action moves past it.
C6_OnlyCompleteSetAdvances ==
  [][(OnStrength /\ MovedForward)
       => (CompleteSet /\ wkSetsDone + 1 = CurStep.sets)]_vars

\* C6 (amended): the stepper moves forward past a strength step with n sets only
\* by the n-th completeSet on it or by nextStep (the Next button), never by a
\* timer tick or any other action.
C6_CompleteSetOrNext ==
  [][(OnStrength /\ MovedForward)
       => (NextStep \/ (CompleteSet /\ wkSetsDone + 1 = CurStep.sets))]_vars

\* The n-th completeSet moved the session on from a strength step.
C6_Witness ==
  /\ wkEvent = "completeSet" /\ wkSession # NoSession
  /\ wkSession.currentStepIndex = wkPrevIdx + 1
  /\ StepAt(wkSession.activeWorkoutId, wkPrevIdx).sets = FewSets

\* C7: a tick that finds the countdown of an unpaused timed step at zero moves
\* the stepper on (to the next step, or to completion on the last step); a tick on
\* a strength step changes neither currentStepIndex, currentSet nor remainingSec.
C7_TimerAdvancesTimedOnly ==
  [][Tick =>
       /\ TickReachesZero =>
            IF OnLast THEN wkSession' = NoSession
            ELSE /\ wkSession' # NoSession
                 /\ wkSession'.currentStepIndex = wkSession.currentStepIndex + 1
       /\ OnStrength =>
            /\ wkSession' # NoSession
            /\ wkSession'.currentStepIndex = wkSession.currentStepIndex
            /\ wkSession'.currentSet = wkSession.currentSet
            /\ wkSession'.remainingSec = wkSession.remainingSec]_vars

\* A tick moved the stepper from a timed step to the next step.
C7_Witness ==
  /\ wkEvent = "tick" /\ wkSession # NoSession
  /\ wkSession.currentStepIndex = wkPrevIdx + 1
  /\ StepAt(wkSession.activeWorkoutId, wkPrevIdx).durationSec # -1

\* C8: Finish at any step, and every advance past the final step (Next, the last
\* completeSet, a tick that reaches zero), in any interleaving, puts exactly one
\* CompletedSession of the session's workout in front of the history (which
\* keeps its newest 60 entries) and leaves no session.
C8_CompletionAppendsOne ==
  [][(\/ FinishButton
      \/ (OnLast /\ NextStep)
      \/ (OnLast /\ OnStrength /\ wkSession.currentSet >= CurStep.sets /\ CompleteSet)
      \/ (OnLast /\ TickReachesZero /\ Tick))
       => /\ wkSession' = NoSession
          /\ Len(wkHistory') = IF Len(wkHistory) < HistoryCap THEN Len(wkHistory) + 1
                                ELSE HistoryCap
          /\ SubSeq(wkHistory', 2, Len(wkHistory')) = SubSeq(wkHistory, 1, Len(wkHistory') - 1)
          /\ wkHistory'[1].workoutId = wkSession.activeWorkoutId]_vars

\* C9: abandonSession sets the session to none, records no CompletedSession of
\* its own and leaves the weekly plan as it was: the history is the one the
\* updates dispatched before the abandon (a tick, if one is queued) produce.
C9_AbandonRecordsNothing ==
  [][AbandonSession =>
       /\ wkSession' = NoSession
       /\ wkHistory' = IF QueuedTick.finish
                        THEN PushHistory(wkHistory, Completed(wkSession))
                        ELSE wkHistory
       /\ wkPlan' = wkPlan]_vars

\* A session was abandoned past its first step, with a history and a plan around.
C9_Witness ==
  /\ wkEvent = "abandon" /\ wkSession = NoSession
  /\ wkPrevIdx > 0 /\ Len(wkHistory) = 1 /\ wkPlan

\* C10: the active session's currentStepIndex stays within 0..steps.length-1.
C10_IndexInRange ==
  wkSession # NoSession =>
     /\ wkSession.currentStepIndex >= 0
     /\ wkSession.currentStepIndex <= StepCount(wkSession.activeWorkoutId) - 1

\* prevStep was pressed on step 0 and the index stayed 0.
C10_Witness ==
  /\ wkEvent = "prevStep" /\ wkPrevIdx = 0
  /\ wkSession # NoSession /\ wkSession.currentStepIndex = 0

\* The three fields a pause has to keep.
Frozen(s) == <<s.currentStepIndex, s.currentSet, s.remainingSec>>
\* A handler of the stepper, of Finish, End / Exit or Start ran.
StepperAction ==
  \/ PrevStep \/ NextStep \/ CompleteSet \/ FinishButton \/ AbandonSession
  \/ \E w \in WorkoutIds : StartWorkout(w)

\* C11: pausing keeps currentStepIndex, currentSet and remainingSec as the
\* updates dispatched before the pause left them; while the session is paused
\* nothing but a stepper button changes them (no tick, no resume, no passing of
\* time, no change of tab); resuming restarts the count at the moment of the
\* resume, so the first tick counted after it deducts the whole seconds since
\* the resume and nothing of the pause.
C11_PauseFreezesCountdown ==
  [][/\ (TogglePause /\ ~wkSession.paused /\ ~QueuedTick.finish)
          => /\ wkSession' # NoSession /\ wkSession'.paused
             /\ Frozen(wkSession') = Frozen(QueuedTick.session)
     /\ (wkSession # NoSession /\ wkSession.paused /\ ~StepperAction)
          => /\ wkSession' # NoSession
             /\ Frozen(wkSession') = Frozen(wkSession)
     /\ (TogglePause /\ wkSession.paused)
          => /\ ~wkSession'.paused
             /\ lastTickRef' = wkNow
     /\ (Tick /\ wkSession # NoSession /\ ~wkSession.paused
              /\ wkPauseLog.back # -1 /\ lastTickRef = wkPauseLog.back
              /\ CurStep.durationSec # -1)
          => LET d == deltaSec(wkPauseLog.back) IN
             IF d = 0 THEN wkSession' = wkSession
             ELSE IF wkSession.remainingSec - d > 0
             THEN wkSession' = [wkSession EXCEPT !.remainingSec = @ - d]
             ELSE wkSession' = NoSession \/ MovedForward]_vars

\* A pause lasted a second or more, and the first tick counted after the resume
\* took one second off a countdown that the pause had left at two.
C11_Witness ==
  /\ wkEvent = "tick" /\ wkSession # NoSession
  /\ wkPauseLog.at # -1 /\ wkPauseLog.back >= wkPauseLog.at + UnitsPerSec
  /\ lastTickRef > wkPauseLog.back
  /\ lastTickRef < wkPauseLog.back + 2 * UnitsPerSec
  /\ wkSession.activeWorkoutId = "timed" /\ wkSession.currentStepIndex = 0
  /\ wkSession.remainingSec = LongSec - 1

\* C12: while an unpaused session stays on one timed step, after every tick the
\* seconds taken off remainingSec since the countdown started from the step's
\* duration equal the whole seconds of wall-clock time elapsed since then; a tick
\* leaves the step only when that many seconds have elapsed.
C12_DeductsElapsedSeconds ==
  [][(Tick /\ wkCountFrom # -1 /\ wkSession # NoSession /\ ~wkSession.paused
           /\ CurStep.durationSec # -1)
       => LET elapsed == (wkNow - wkCountFrom) \div UnitsPerSec IN
          IF wkSession' # NoSession
             /\ wkSession'.currentStepIndex = wkSession.currentStepIndex
          THEN CurStep.durationSec - wkSession'.remainingSec = elapsed
          ELSE elapsed >= CurStep.durationSec]_vars

\* C13: at most one countdown interval is registered at any time, and none is
\* registered without a session, while the session is paused, or while
\* WorkoutsTab is unmounted.
C13_OneIntervalAtMost ==
  /\ wkIntervals <= 1
  /\ (wkSession = NoSession \/ wkSession.paused \/ ~wkMounted) => wkIntervals = 0

\* The tab was left while an unpaused session was counting down, and the
\* interval is gone.
C13_Witness ==
  /\ wkEvent = "unmount" /\ ~wkMounted
  /\ wkSession # NoSession /\ ~wkSession.paused
  /\ wkIntervals = 0 /\ ~tickRef

\* a turn holds nothing that runs: no request in flight, no utterance being spoken,
\* no started recognizer, no handlers on a recognizer whose end event is still to
\* come, no live microphone track
Cancelled(t) ==
  /\ t.req # "inflight"
  /\ t.utter # "speaking"
  /\ t.rec # "started"
  /\ t.rec = "stopping" => ~t.handlers
  /\ t.stream # "live"

\* C14: when startListening starts its recognizer, every earlier turn has been
\* cancelled: its request aborted, its speech cancelled, its recognizer stopped with
\* the handlers detached, its microphone tracks stopped.
C14_PreviousTurnCancelled ==
  [][\A c \in VoiceIds :
       MicGranted(c, TRUE) => \A d \in VoiceIds \ {c} : Cancelled(vTurns'[d])]_vars

MicHeld == {c \in VoiceIds : vTurns[c].stream = "live"}
StartPending == \E c \in VoiceIds : vTurns[c].pc = "awaitMic"
TurnEnded == \/ voiceState \in {"processing", "speaking"}
             \/ voiceState = "idle" /\ ~StartPending

\* C15: at most one microphone stream is held, and once a turn has ended
\* (processing, speaking, or idle with no start pending) no microphone track of the
\* level meter is live and no animation frame of it is scheduled.
C15_MicrophoneReleased ==
  /\ Cardinality(MicHeld) <= 1
  /\ TurnEnded => (MicHeld = {} /\ vFrames = {})

ChatInFlight == {r \in ReqIds : Live(r) /\ ~reqs[r].aborted}
VoiceInFlight == {c \in VoiceIds : vTurns[c].req = "inflight"}

\* C16: in the chat tab and in the voice tab at most one completion request that
\* was not aborted is in flight; a new request leaves the request of the previous
\* controller aborted or settled; while generating is true no chat request starts.
C16_OneRequestInFlight ==
  [][/\ Cardinality(ChatInFlight') <= 1
     /\ Cardinality(VoiceInFlight') <= 1
     /\ \A c \in VoiceIds :
          (vTurns[c].req = "none" /\ vTurns'[c].req = "inflight" /\ apiAbortRef # 0)
             => vTurns'[apiAbortRef].req # "inflight"
     /\ \A r \in ReqIds :
          (~Live(r) /\ Live(r)')
             => /\ ~generating
                /\ abortRef # 0 => (~Live(abortRef)' \/ reqs'[abortRef].aborted)]_vars

\* A turn asks for its reply while the request of another turn is in flight: that
\* request is aborted and its processText has given up.
C16_Witness ==
  \E c, d \in VoiceIds :
    /\ c # d
    /\ voiceEvent = <<"recEnd", d>>
    /\ vTurns[d].req = "inflight" /\ apiAbortRef = d
    /\ vTurns[c].req = "aborted" /\ vTurns[c].proc = "done"
    /\ voiceError = "api" /\ voiceState = "idle"

\* a session is stopped in this step, and what the stop finds
SessionStopped == poSessionActive /\ ~poSessionActive'
ElapsedUnits == poNow - poSessionStart
RecordAdded ==
  /\ Len(poHistory') > 0 /\ poHistory'[1].id = poSessions
  /\ \A i \in 1..Len(poHistory) : poHistory[i].id # poSessions
  /\ poStored' = poHistory'

\* C17: when an active session is stopped, a record is added to the history if
\* and only if at least 5 seconds have passed since the session started or at
\* least 120 frames were processed; otherwise the history and its stored copy are
\* unchanged.
C17_SavedIffLongEnough ==
  [][SessionStopped =>
       IF ElapsedUnits >= MinSaveSec * PoUnitsPerSec \/ poStats.frames >= MinSaveFrames
       THEN RecordAdded
       ELSE poHistory' = poHistory /\ poStored' = poStored]_vars

\* the sessions recorded by finishSessionAndSave (stored entries have other ids)
Recorded == {i \in 1..Len(poHistory) : poHistory[i].id > 0}
PctSum(e) == e.correctPct + e.warningPct + e.badPct + e.noPersonPct

\* C18: in every recorded session the four status counters add up to frames, and
\* the four percentages add up to 100 within the rounding of four one-decimal
\* values (0.2), a session without processed frames included.
C18_CountsAndPercentages ==
  \A i \in Recorded :
    LET e == poHistory[i] IN
    /\ e.correctFrames + e.warningFrames + e.badFrames + e.noPersonFrames = e.frames
    /\ PctSum(e) >= 1000 - 2 /\ PctSum(e) <= 1000 + 2

\* the sum of the visibilities of the two shoulders and the two hips, in hundredths,
\* a missing one counting as 1
VisSum(pose) ==
  LET One(v) == IF v = -1 THEN 100 ELSE v IN
  One(pose.lm[11].v) + One(pose.lm[12].v) + One(pose.lm[23].v) + One(pose.lm[24].v)

\* C19: in every mode a result without a landmark list, with fewer than 33
\* landmarks, or with an average shoulder and hip visibility below 0.4 is
\* classified no_person.
C19_NoPerson ==
  fbOut # NoFeedback =>
    ((fbPose.n < 33 \/ VisSum(fbPose) < 4 * 40) => fbOut.status = "no_person")

\* a full landmark list in plank mode, one visibility missing and the other three
\* zero: the average is 0.25
C19_Witness ==
  /\ fbOut.status = "no_person"
  /\ fbEx = "plank" /\ fbPose.n = 33
  /\ fbPose.lm[11].v = -1 /\ VisSum(fbPose) = 100

PickedHip == pickSide(fbPose.lm, 23, 24)
PickedKnee == pickSide(fbPose.lm, 25, 26)
PickedAnkle == pickSide(fbPose.lm, 27, 28)
PickedShoulder == pickSide(fbPose.lm, 11, 12)

\* the knee angle is 180 degrees: hip, knee and ankle on one line, the knee between
KneeStraight ==
  LET d == Dot(PickedHip, PickedKnee, PickedAnkle)
      m == Mag2(PickedHip, PickedKnee) * Mag2(PickedAnkle, PickedKnee)
  IN d < 0 /\ d * d = m

StandingStraight ==
  /\ fbOut # NoFeedback /\ fbOut.status # "no_person"
  /\ fbEx = "standing"
  /\ KneeStraight
  /\ ~AngleBelow(PickedShoulder, PickedHip, PickedKnee, 155)

\* C20 as stated: in standing mode a detected pose with a knee angle of 180 degrees
\* and a torso angle of at least 155 degrees is classified correct.
C20_StraightIsCorrect == StandingStraight => fbOut.status = "correct"

LevelWithin3Percent(a, b) ==
  LET d == IF a.y < b.y THEN b.y - a.y ELSE a.y - b.y IN 100 * d <= 3 * PoGrid

\* C20 amended: in standing mode a detected pose with a knee angle of 180 degrees, a
\* torso angle of at least 155 degrees, and shoulders and hips level within 0.03
\* is classified correct.
C20_StraightAndLevelIsCorrect ==
  (/\ StandingStraight
   /\ LevelWithin3Percent(fbPose.lm[11], fbPose.lm[12])
   /\ LevelWithin3Percent(fbPose.lm[23], fbPose.lm[24]))
     => fbOut.status = "correct"

\* a standing pose leaning a little, the right shoulder 0.02 lower than the left
C20_Witness ==
  /\ StandingStraight /\ fbOut.status = "correct"
  /\ fbPose.lm[12].y - fbPose.lm[11].y = 1
  /\ fbPose.lm[11].x # fbPose.lm[23].x

\* C21: for every mode and every detected pose the status follows the number of
\* violated rules: none gives correct, one or two give warning, three or more
\* give bad.
C21_StatusByTipCount ==
  (fbOut # NoFeedback /\ fbOut.status # "no_person") =>
    LET k == Cardinality(fbOut.tips) IN
      /\ k = 0 => fbOut.status = "correct"
      /\ k \in {1, 2} => fbOut.status = "warning"
      /\ k >= 3 => fbOut.status = "bad"

\* a squat with both tilts and a third rule violated
C21_Witness ==
  /\ fbEx = "squat" /\ fbOut.status = "bad"
  /\ {"shoulders", "hips"} \subseteq fbOut.tips
  /\ Cardinality(fbOut.tips) >= 3

\* generateCoachReply of request r fails for a reason other than an abort: a network
\* error, a non-2xx response, or a 2xx body that is no JSON
FailsUnaborted(r) ==
  \/ FetchFails(r)
  \/ ErrBodyDone(r)
  \/ OkBodyDone(r, "badJson")

\* the placeholder appended by the send of request r is in the list
PlaceholderShown(r) ==
  /\ reqs[r].ph[2] # -1
  /\ Len(MessagesOf(sessions, reqs[r].ph[1])) > reqs[r].ph[2]
  /\ MessagesOf(sessions, reqs[r].ph[1])[reqs[r].ph[2] + 1] = Placeholder

\* C22: when a request fails for a reason other than an abort, the placeholder of
\* its turn becomes an Error message, apiState becomes error, generating becomes
\* false and no request is left in flight; a request is only ever issued by send.
C22_FailureShownNoRetry ==
  [][/\ \A r \in ReqIds : FailsUnaborted(r) =>
          /\ PlaceholderShown(r) =>
               MessagesOf(sessions', reqs[r].ph[1])[reqs[r].ph[2] + 1].text = "Error"
          /\ apiState' = "error"
          /\ ~generating'
          /\ \A q \in ReqIds : reqs'[q].phase = "unused"
     /\ (\E q \in ReqIds : reqs[q].phase = "unused" /\ reqs'[q].phase # "unused") => Send
    ]_vars

\* a failed turn: the user's message is followed by the Error message
C22_Witness ==
  /\ chatEvent = "error" /\ apiState = "error" /\ ~generating
  /\ Len(ActiveMessages) = 2
  /\ ActiveMessages[2].text = "Error"

\* C23: for every persisted entity a storage exception while loading yields the
\* fallback value and one while saving is swallowed; no load or save lets the
\* exception out.
C23_StorageFailsSilently ==
  /\ stResult # "thrown"
  /\ (stResult # "pending" /\ stStore.fault) =>
        stResult = (IF stOp = "load" THEN "fallback" ELSE "swallowed")

\* the body is a JSON object whose prompt is absent, null, empty or only whitespace
BlankPrompt ==
  /\ pxBody.kind = "object"
  /\ pxBody.prompt.type \in {"missing", "null", "string"}
  /\ \A i \in 1..Len(pxBody.prompt.s) : pxBody.prompt.s[i] = " "

\* C24 as stated: without a key every request body is answered 500, with a key a
\* missing, empty or whitespace-only prompt is answered 400, and in both cases no
\* request goes upstream.
C24_ValidatedBeforeUpstream ==
  pxPhase # "received" =>
    /\ ~pxKey => (pxResp.status = 500 /\ pxUpstream = 0)
    /\ (pxKey /\ BlankPrompt) => (pxResp.status = 400 /\ pxUpstream = 0)

\* C24 amended: without a key every request whose body the JSON parser accepts is
\* answered 500 (a body that is no JSON or exceeds 1 MB is answered 400 or 413 by
\* the parser), with a key a missing, empty or whitespace-only prompt is answered
\* 400, and in none of these cases a request goes upstream.
C24_ParsedBodyValidatedBeforeUpstream ==
  pxPhase # "received" =>
    /\ (~pxKey /\ pxBody.kind = "object") => (pxResp.status = 500 /\ pxUpstream = 0)
    /\ (~pxKey /\ pxBody.kind # "object") => (pxResp.status \in {400, 413} /\ pxUpstream = 0)
    /\ (pxKey /\ BlankPrompt) => (pxResp.status = 400 /\ pxUpstream = 0)

\* a whitespace-only prompt was refused while a key is configured
C24_Witness ==
  /\ pxPhase = "responded" /\ pxKey
  /\ pxBody.kind = "object" /\ pxBody.prompt.type = "string" /\ Len(pxBody.prompt.s) = 2
  /\ BlankPrompt
  /\ pxResp.status = 400 /\ pxUpstream = 0

\* C25: a provider answer with a non-2xx status S and payload P is passed on as
\* status S with P as the error; a 2xx answer becomes 200 with text and tokensUsed,
\* the empty string and 0 standing in for what the provider left out.
C25_ProviderAnswerRelayed ==
  (pxPhase = "responded" /\ pxAnswer # NoAnswer) =>
    IF pxAnswer.status < 200 \/ pxAnswer.status > 299
    THEN /\ pxResp.status = pxAnswer.status
         /\ pxResp.kind = "error"
         /\ pxAnswer.json => pxResp.error = pxAnswer.error
    ELSE /\ pxResp.status = 200
         /\ pxResp.kind = "reply"
         /\ pxResp.text = (IF pxAnswer.content = "none" THEN "" ELSE pxAnswer.content)
         /\ pxResp.tokensUsed = (IF pxAnswer.tokens = -1 THEN 0 ELSE pxAnswer.tokens)

\* the addresses of Emails that are well-formed, surrounding blanks aside
WellFormedEmails == {<<"a", "@", "b", ".", "c">>, <<" ", "a", "@", "b", ".", "c", " ">>}

\* the auth record of the address typed is in the storage chosen
AuthWritten ==
  IF lgRemember THEN lgLocal' = Trim(lgEmail) ELSE lgSession' = Trim(lgEmail)

C27_SendReachesCurrentSession ==
  [][/\ Send =>
          MessagesOf(sessions', activeId')
             = MessagesOf(sessions, activeId) \o <<UserMsg, Placeholder>>
     /\ \A r \in ReqIds : OkBodyDone(r, "reply") =>
          /\ reqs[r].ph[2] # -1
          /\ Len(MessagesOf(sessions', reqs[r].ph[1])) > reqs[r].ph[2]
          /\ MessagesOf(sessions', reqs[r].ph[1])[reqs[r].ph[2] + 1].text = "reply"
    ]_vars

\* the request in flight that was not aborted still owns the refs send gave it
CurrentRequestIntact ==
  \A q \in ReqIds : (Live(q) /\ ~reqs[q].aborted) =>
     /\ generating
     /\ abortRef = q
     /\ reqs[q].ph[2] # -1 => assistantIndexRef = reqs[q].ph[2]

C30_CoachOnlyWithElite ==
  sbBookedCoachId # 0 => (sbSubscription.active /\ sbSubscription.tier = "Elite")

====
